---------------------------- MODULE Spec2Model ----------------------------
(***************************************************************************)
(* Verification model of the newspaper application's decision              *)
(* procedures:                                                             *)
(*                                                                         *)
(*   - generateMoodFromMusic (server routes): the mood classifier, a pure  *)
(*     synchronous function of a track list and a genre list;              *)
(*   - generateBiography (server/ai.ts): the per-language biography        *)
(*     generation with a primary provider (Gemini), a secondary provider   *)
(*     (DeepSeek through the OpenAI client) and static fallback texts;     *)
(*   - generateAllBiographies (server/ai.ts): the three languages one      *)
(*     after the other, a delay between them.                              *)
(*                                                                         *)
(* JavaScript strings that the code inspects (genres, keywords, mood       *)
(* names) are sequences of one-character strings; texts whose length the   *)
(* code inspects (provider output, fallback texts) are sequences of UTF-16 *)
(* code units, which is what String.prototype.length counts.               *)
(***************************************************************************)
EXTENDS Integers, Sequences, FiniteSets, TLC

VARIABLES
  mpc,         \* classifier call: "idle" | "returned"
  tracks,      \* argument `tracks` of the last classifier call
  genres,      \* argument `genres` of the last classifier call
  moodResult,  \* completion of the last classifier call
  moodLocals   \* its locals moodCounts and averagePopularity as they were set

moodVars == <<mpc, tracks, genres, moodResult, moodLocals>>

VARIABLES
  genAI,          \* module-level Gemini handle is set (not null)
  openai,         \* module-level OpenAI (DeepSeek) handle is set (not null)
  bpc,            \* generateBiography: "idle" | "awaitGemini" | "awaitDeepSeek" | "done"
  options,        \* argument of the current generateBiography call
  prompt,         \* the prompt built by the current call
  providerCalls,  \* provider calls issued by the current call, in order
  bioResult       \* completion of the current call

bioVars == <<genAI, openai, bpc, options, prompt, providerCalls, bioResult>>

VARIABLES
  apc,            \* position of generateAllBiographies
  allArgs,        \* its arguments (tracks, extraData)
  bios,           \* enBio, trBio, kuBio as far as they are assigned
  timer,          \* the setTimeout of the delay: "unset" or "set"
  timeline,       \* what the run has done so far, in order
  allResult       \* what generateAllBiographies returned

allVars == <<apc, allArgs, bios, timer, timeline, allResult>>

VARIABLES
  users,          \* MemStorage.users: id -> user record
  topTracks,      \* MemStorage.tracks: id -> top track record
  biographies,    \* MemStorage.biographies: id -> biography record
  userId,         \* MemStorage.userId: the next user id
  trackId,        \* MemStorage.trackId: the next track id
  biographyId,    \* MemStorage.biographyId: the next biography id
  response        \* what the last request was answered with

storeVars == <<users, topTracks, biographies, userId, trackId, biographyId>>

---------------------------------------------------------------------------
(* Bounds of the model.                                                    *)

MaxTracks == 2    \* longest track list passed to the classifier
MaxGenres == 2    \* longest genre list passed to the classifier
MaxSlack == 4     \* provider texts are up to this much shorter or longer than 600
MaxItems == 1     \* longest list of top tracks the music service answers with
MaxTrackId == 2   \* requests are taken while the track ids stay up to this

---------------------------------------------------------------------------
(* JavaScript values and string primitives.                                *)

\* The sequences over S of length at most n.
SeqUpTo(S, n) == UNION {[1..k -> S] : k \in 0..n}

\* Those without a repeated element.
DistinctSeqUpTo(S, n) ==
  {s \in SeqUpTo(S, n) : \A i, j \in 1..Len(s) : i # j => s[i] # s[j]}

\* `null` / `undefined` passed where an array is expected, and an array.
Null == [tag |-> "null"]
Array(items) == [tag |-> "array", items |-> items]
isNullish(v) == v.tag = "null"

\* Completion of a call: a normal return, or an exception thrown.
Return(v) == [type |-> "return", value |-> v]
Throw(e) == [type |-> "throw", error |-> e]
NoCall == [type |-> "none"]

UpperChars == <<"A","B","C","D","E","F","G","H","I","J","K","L","M",
                "N","O","P","Q","R","S","T","U","V","W","X","Y","Z">>
LowerChars == <<"a","b","c","d","e","f","g","h","i","j","k","l","m",
                "n","o","p","q","r","s","t","u","v","w","x","y","z">>

\* String.prototype.toLowerCase, on the ASCII letters.
toLowerCase(s) ==
  [i \in 1..Len(s) |->
     IF \E k \in 1..26 : UpperChars[k] = s[i]
       THEN LowerChars[CHOOSE k \in 1..26 : UpperChars[k] = s[i]]
       ELSE s[i]]

\* String.prototype.toUpperCase, on the ASCII letters.
toUpperCase(s) ==
  [i \in 1..Len(s) |->
     IF \E k \in 1..26 : LowerChars[k] = s[i]
       THEN UpperChars[CHOOSE k \in 1..26 : LowerChars[k] = s[i]]
       ELSE s[i]]

\* String.prototype.includes: `keyword` occurs in `s` as a substring.
includes(s, keyword) ==
  \E i \in 0..(Len(s) - Len(keyword)) :
     SubSeq(s, i + 1, i + Len(keyword)) = keyword

\* s.charAt(0).toUpperCase() + s.slice(1)
Capitalize(s) ==
  IF Len(s) = 0 THEN s ELSE toUpperCase(<<s[1]>>) \o SubSeq(s, 2, Len(s))

---------------------------------------------------------------------------
(* generateMoodFromMusic: the tables.                                      *)

energetic == <<"e","n","e","r","g","e","t","i","c">>
happy == <<"h","a","p","p","y">>
intense == <<"i","n","t","e","n","s","e">>
relaxed == <<"r","e","l","a","x","e","d">>
melancholic == <<"m","e","l","a","n","c","h","o","l","i","c">>
thoughtful == <<"t","h","o","u","g","h","t","f","u","l">>
romantic == <<"r","o","m","a","n","t","i","c">>
nostalgic == <<"n","o","s","t","a","l","g","i","c">>
adventurous == <<"a","d","v","e","n","t","u","r","o","u","s">>

\* Object.entries(genreCheckList): the moods in insertion order, each with
\* its keywords in array order.
genreCheckList ==
  <<
     [mood |-> energetic,
      keywords |-> <<<<"d","a","n","c","e">>,
                     <<"e","d","m">>,
                     <<"e","l","e","c","t","r","o","n","i","c">>,
                     <<"h","o","u","s","e">>,
                     <<"t","e","c","h","n","o">>,
                     <<"p","o","p">>,
                     <<"p","a","r","t","y">>,
                     <<"c","l","u","b">>>>],
     [mood |-> happy,
      keywords |-> <<<<"p","o","p">>,
                     <<"h","a","p","p","y">>,
                     <<"f","e","e","l","-","g","o","o","d">>,
                     <<"s","u","m","m","e","r">>,
                     <<"t","r","o","p","i","c","a","l">>,
                     <<"d","i","s","n","e","y">>>>],
     [mood |-> intense,
      keywords |-> <<<<"m","e","t","a","l">>,
                     <<"h","a","r","d","c","o","r","e">>,
                     <<"p","u","n","k">>,
                     <<"r","o","c","k">>,
                     <<"a","l","t","e","r","n","a","t","i","v","e">>,
                     <<"g","r","u","n","g","e">>>>],
     [mood |-> relaxed,
      keywords |-> <<<<"a","m","b","i","e","n","t">>,
                     <<"c","h","i","l","l">>,
                     <<"s","t","u","d","y">>,
                     <<"p","i","a","n","o">>,
                     <<"s","l","e","e","p">>,
                     <<"m","e","d","i","t","a","t","i","o","n">>,
                     <<"a","c","o","u","s","t","i","c">>>>],
     [mood |-> melancholic,
      keywords |-> <<<<"s","a","d">>,
                     <<"r","a","i","n">>,
                     <<"e","m","o","t","i","o","n","a","l">>,
                     <<"s","o","u","l">>,
                     <<"b","l","u","e","s">>,
                     <<"i","n","d","i","e">>>>],
     [mood |-> thoughtful,
      keywords |-> <<<<"f","o","l","k">>,
                     <<"s","i","n","g","e","r","-","s","o","n","g","w","r","i","t","e","r">>,
                     <<"a","c","o","u","s","t","i","c">>,
                     <<"i","n","d","i","e">>,
                     <<"a","l","t","e","r","n","a","t","i","v","e">>>>],
     [mood |-> romantic,
      keywords |-> <<<<"l","o","v","e">>,
                     <<"r","o","m","a","n","c","e">>,
                     <<"r","&","b">>,
                     <<"s","o","u","l">>,
                     <<"w","e","d","d","i","n","g">>>>],
     [mood |-> nostalgic,
      keywords |-> <<<<"8","0","s">>,
                     <<"9","0","s">>,
                     <<"o","l","d","i","e","s">>,
                     <<"c","l","a","s","s","i","c">>,
                     <<"r","e","t","r","o">>,
                     <<"v","i","n","t","a","g","e">>>>],
     [mood |-> adventurous,
      keywords |-> <<<<"s","o","u","n","d","t","r","a","c","k">>,
                     <<"e","p","i","c">>,
                     <<"t","r","a","i","l","e","r">>,
                     <<"m","o","v","i","e">>,
                     <<"a","d","v","e","n","t","u","r","e">>,
                     <<"g","a","m","e">>>>]
  >>

Moods == {genreCheckList[i].mood : i \in 1..Len(genreCheckList)}

defaultMood ==
  [primary |-> <<"N","o","s","t","a","l","g","i","c">>,
   secondary |-> <<"T","h","o","u","g","h","t","f","u","l">>,
   description |-> "You find comfort in songs that remind you of meaningful moments."]

\* The per-mood texts.  (The relaxed recommendation's "Ete" is written with
\* an accented capital E in the source; the texts are opaque payloads here.)
moodDescriptions ==
  [m \in Moods |->
     CASE m = energetic ->
            [description |-> "Our analysis suggests you enjoy high-energy tracks with dynamic beats.",
             recommendation |-> "Try listening to 'Blinding Lights' by The Weeknd or 'Don't Stop Me Now' by Queen."]
       [] m = happy ->
            [description |-> "Your musical choices suggest a preference for uplifting and positive sounds.",
             recommendation |-> "You might enjoy 'Happy' by Pharrell Williams or 'Walking on Sunshine' by Katrina & The Waves."]
       [] m = intense ->
            [description |-> "Your taste leans toward music with emotional depth and powerful soundscapes.",
             recommendation |-> "Consider 'Welcome to the Black Parade' by My Chemical Romance or 'Knights of Cydonia' by Muse."]
       [] m = relaxed ->
            [description |-> "Your listening patterns indicate appreciation for calming and peaceful sounds.",
             recommendation |-> "You might enjoy 'Weightless' by Marconi Union or 'Comptine d'un Autre Ete' by Yann Tiersen."]
       [] m = melancholic ->
            [description |-> "Your music choices reveal an appreciation for the beauty in melancholy and introspection.",
             recommendation |-> "Try 'Vienna' by Billy Joel or 'Liability' by Lorde for more emotional depth."]
       [] m = thoughtful ->
            [description |-> "Our analysis shows you enjoy music that stimulates reflection and deep thinking.",
             recommendation |-> "Consider 'Hallelujah' by Leonard Cohen or 'Imagine' by John Lennon to match your thoughtful style."]
       [] m = romantic ->
            [description |-> "Your playlist suggests a taste for music that evokes emotional connection.",
             recommendation |-> "You might enjoy 'At Last' by Etta James or 'Can't Help Falling in Love' by Elvis Presley."]
       [] m = nostalgic ->
            [description |-> "Your preferences point toward music that creates a sense of reminiscence.",
             recommendation |-> "Try 'Yesterday' by The Beatles or 'The Sound of Silence' by Simon & Garfunkel."]
       [] m = adventurous ->
            [description |-> "Your musical journey indicates an openness to diverse and exploratory sounds.",
             recommendation |-> "Consider 'Bohemian Rhapsody' by Queen or 'Stairway to Heaven' by Led Zeppelin."]]

genericRecommendation == "Try exploring more music to get personalized recommendations."

---------------------------------------------------------------------------
(* generateMoodFromMusic: the algorithm.                                   *)

\* `!tracks || tracks.length === 0`
NoTracks_nullOnly(t) == isNullish(t)
NoTracks_lengthOnly(t) == ~isNullish(t) /\ Len(t.items) = 0
NoTracks(t) == isNullish(t) \/ Len(t.items) = 0

\* keywordScan without the `break`: 1 for every keyword included.
RECURSIVE keywordScan_noBreak(_, _, _)
keywordScan_noBreak(keywords, i, lowerGenre) ==
  IF i > Len(keywords) THEN 0
  ELSE (IF includes(lowerGenre, keywords[i]) THEN 1 ELSE 0)
         + keywordScan_noBreak(keywords, i + 1, lowerGenre)

\* The `for (const keyword of keywords)` loop from keyword i on: 1 at the
\* first keyword the lowercased genre includes (then `break`), 0 if none.
RECURSIVE keywordScan(_, _, _)
keywordScan(keywords, i, lowerGenre) ==
  IF i > Len(keywords) THEN 0
  ELSE IF includes(lowerGenre, keywords[i]) THEN 1
  ELSE keywordScan(keywords, i + 1, lowerGenre)

\* What one genre adds to the count of the mood with these keywords.
genreHit(keywords, genre) == keywordScan(keywords, 1, toLowerCase(genre))

\* Genre strings as the music service reports them: some contain a keyword,
\* some contain keywords of several moods, one two keywords of one mood,
\* some contain none.
GenreVocabulary ==
  { <<"i","n","d","i","e"," ","r","o","c","k">>,
    <<"k","-","p","o","p">>,
    <<"A","m","b","i","e","n","t">>,
    <<"j","a","z","z">>,
    <<"c","l","a","s","s","i","c","a","l">>,
    <<"D","e","e","p"," ","H","o","u","s","e">>,
    <<"d","a","n","c","e"," ","p","o","p">>,
    <<"t","u","r","k","i","s","h"," ","f","o","l","k">> }

\* The keywords of each mood, as a set.
keywordSets ==
  [m \in Moods |->
     LET e == CHOOSE i \in 1..Len(genreCheckList) : genreCheckList[i].mood = m
     IN  {genreCheckList[e].keywords[k] : k \in 1..Len(genreCheckList[e].keywords)}]
keywordsOf(m) == keywordSets[m]

\* Every genre string a call of the model passes.
GenreUniverse == GenreVocabulary \cup UNION {keywordsOf(m) : m \in Moods}

\* genreHit of every genre of the model against every entry of
\* genreCheckList, computed once.
genreHits ==
  [g \in GenreUniverse |->
     [e \in 1..Len(genreCheckList) |-> genreHit(genreCheckList[e].keywords, g)]]

\* The `genres.forEach` loop for the mood at entry e of genreCheckList, from
\* genre j on.
RECURSIVE genreScan(_, _, _)
genreScan(e, gs, j) ==
  IF j > Len(gs) THEN 0
  ELSE genreHits[gs[j]][e] + genreScan(e, gs, j + 1)

\* The entry of genreCheckList that holds mood m.
entryOf ==
  [m \in Moods |-> CHOOSE i \in 1..Len(genreCheckList) : genreCheckList[i].mood = m]

\* moodCounts after the Object.entries(genreCheckList).forEach loop.  The
\* object's keys are the moods in the order of genreCheckList, and stay in
\* that order; the model keeps the counts as a sequence in that order, the
\* count of mood m at entryOf[m].
genreCounts(gs) == [e \in 1..Len(genreCheckList) |-> genreScan(e, gs, 1)]

\* `track.popularity || 50`: null, undefined and 0 are falsy.
popularityOr50(track) ==
  IF "popularity" \in DOMAIN track /\ track.popularity # 0
    THEN track.popularity
    ELSE 50

\* tracks.reduce((sum, track) => sum + (track.popularity || 50), 0)
RECURSIVE popularitySum(_, _)
popularitySum(ts, i) ==
  IF i > Len(ts) THEN 0 ELSE popularityOr50(ts[i]) + popularitySum(ts, i + 1)

\* averagePopularity = popularitySum / tracks.length compared with a whole
\* number k.  The sum and the length are integers below 2^53, so the
\* floating-point quotient compares with k as the exact quotient does; for
\* an empty list the quotient is NaN and every comparison is false.
avgGreater(ts, k) == Len(ts) > 0 /\ popularitySum(ts, 1) > k * Len(ts)
avgLess(ts, k) == Len(ts) > 0 /\ popularitySum(ts, 1) < k * Len(ts)

\* The popularity bias on moodCounts.
applyBias_swapped(counts, ts) ==
  IF avgGreater(ts, 75)
    THEN [counts EXCEPT ![entryOf[energetic]] = @ + 1, ![entryOf[happy]] = @ + 2]
  ELSE IF avgLess(ts, 50)
    THEN [counts EXCEPT ![entryOf[thoughtful]] = @ + 1, ![entryOf[melancholic]] = @ + 1]
  ELSE counts
applyBias_none(counts, ts) == counts
applyBias_inclusive(counts, ts) ==
  IF ~avgLess(ts, 75)
    THEN [counts EXCEPT ![entryOf[energetic]] = @ + 2, ![entryOf[happy]] = @ + 1]
  ELSE IF ~avgGreater(ts, 50)
    THEN [counts EXCEPT ![entryOf[thoughtful]] = @ + 1, ![entryOf[melancholic]] = @ + 1]
  ELSE counts
applyBias_lowOnlyThoughtful(counts, ts) ==
  IF avgGreater(ts, 75)
    THEN [counts EXCEPT ![entryOf[energetic]] = @ + 2, ![entryOf[happy]] = @ + 1]
  ELSE IF avgLess(ts, 50)
    THEN [counts EXCEPT ![entryOf[thoughtful]] = @ + 1]
  ELSE counts
applyBias(counts, ts) ==
  IF avgGreater(ts, 75)
    THEN [counts EXCEPT ![entryOf[energetic]] = @ + 2, ![entryOf[happy]] = @ + 1]
  ELSE IF avgLess(ts, 50)
    THEN [counts EXCEPT ![entryOf[thoughtful]] = @ + 1, ![entryOf[melancholic]] = @ + 1]
  ELSE counts

\* The selection state before the Object.entries(moodCounts).forEach loop.
selectInit ==
  [primaryMood |-> nostalgic, secondaryMood |-> thoughtful,
   highestCount |-> -1, secondHighestCount |-> -1]

\* One iteration of the selection loop.
selectStep_lastWins(st, mood, count) ==
  IF count >= st.highestCount
    THEN [primaryMood |-> mood, secondaryMood |-> st.primaryMood,
          highestCount |-> count, secondHighestCount |-> st.highestCount]
  ELSE IF count >= st.secondHighestCount
    THEN [st EXCEPT !.secondHighestCount = count, !.secondaryMood = mood]
  ELSE st
selectStep_noDemote(st, mood, count) ==
  IF count > st.highestCount
    THEN [st EXCEPT !.highestCount = count, !.primaryMood = mood]
  ELSE IF count > st.secondHighestCount
    THEN [st EXCEPT !.secondHighestCount = count, !.secondaryMood = mood]
  ELSE st
selectStep_missingElse(st, mood, count) ==
  LET first == IF count > st.highestCount
                 THEN [primaryMood |-> mood, secondaryMood |-> st.primaryMood,
                       highestCount |-> count, secondHighestCount |-> st.highestCount]
                 ELSE st
  IN  IF count > first.secondHighestCount
        THEN [first EXCEPT !.secondHighestCount = count, !.secondaryMood = mood]
        ELSE first
selectStep(st, mood, count) ==
  IF count > st.highestCount
    THEN [primaryMood |-> mood, secondaryMood |-> st.primaryMood,
          highestCount |-> count, secondHighestCount |-> st.highestCount]
  ELSE IF count > st.secondHighestCount
    THEN [st EXCEPT !.secondHighestCount = count, !.secondaryMood = mood]
  ELSE st

\* The selection loop over the first n entries of moodCounts (the bias
\* assigns to existing keys only, so the key order is that of the table).
RECURSIVE selectLoop(_, _)
selectLoop(counts, n) ==
  IF n = 0 THEN selectInit
  ELSE selectStep(selectLoop(counts, n - 1), genreCheckList[n].mood, counts[n])

\* zeroOverride with the thresholds 70 and 50 included.
zeroOverride_inclusive(st, ts) ==
  IF st.highestCount = 0
    THEN IF ~avgLess(ts, 70)
           THEN [st EXCEPT !.primaryMood = energetic, !.secondaryMood = happy]
         ELSE IF ~avgLess(ts, 50)
           THEN [st EXCEPT !.primaryMood = nostalgic, !.secondaryMood = adventurous]
         ELSE [st EXCEPT !.primaryMood = thoughtful, !.secondaryMood = melancholic]
    ELSE st

\* `if (highestCount === 0) { ... }`
zeroOverride(st, ts) ==
  IF st.highestCount = 0
    THEN IF avgGreater(ts, 70)
           THEN [st EXCEPT !.primaryMood = energetic, !.secondaryMood = happy]
         ELSE IF avgGreater(ts, 50)
           THEN [st EXCEPT !.primaryMood = nostalgic, !.secondaryMood = adventurous]
         ELSE [st EXCEPT !.primaryMood = thoughtful, !.secondaryMood = melancholic]
    ELSE st

\* moodCounts after the bias, and the moods chosen from it.
finalCounts(ts, gs) == applyBias(genreCounts(gs), ts)
chosen(ts, gs) ==
  zeroOverride(selectLoop(finalCounts(ts, gs), Len(genreCheckList)), ts)

\* `moodDescriptions[m]?.field || fallback`
describe(m, field, fallback) ==
  IF m \in DOMAIN moodDescriptions /\ moodDescriptions[m][field] # ""
    THEN moodDescriptions[m][field]
    ELSE fallback

\* The record built by the final return statement.
moodRecord_noRecommendation(primaryMood, secondaryMood) ==
  [primary |-> Capitalize(primaryMood),
   secondary |-> Capitalize(secondaryMood),
   description |-> describe(primaryMood, "description", defaultMood.description)]
moodRecord_byCapitalised(primaryMood, secondaryMood) ==
  [primary |-> Capitalize(primaryMood),
   secondary |-> Capitalize(secondaryMood),
   description |->
     describe(Capitalize(primaryMood), "description", defaultMood.description),
   recommendation |->
     describe(Capitalize(primaryMood), "recommendation", genericRecommendation)]
moodRecord(primaryMood, secondaryMood) ==
  [primary |-> Capitalize(primaryMood),
   secondary |-> Capitalize(secondaryMood),
   description |-> describe(primaryMood, "description", defaultMood.description),
   recommendation |-> describe(primaryMood, "recommendation", genericRecommendation)]

\* generateMoodFromMusic(tracks, genres).  Past the guard the code reads
\* tracks.reduce and tracks.length, a TypeError on null or undefined.
generateMoodFromMusic(t, gs) ==
  IF NoTracks(t) THEN Return(defaultMood)
  ELSE IF isNullish(t) THEN Throw("TypeError")
  ELSE LET c == chosen(t.items, gs)
       IN  Return(moodRecord(c.primaryMood, c.secondaryMood))

\* The locals of a call: moodCounts after the counting loop, the sum and the
\* number of tracks whose quotient is averagePopularity, and moodCounts after
\* the bias.  A call that returns at the guard, or throws, sets none.
NoLocals == [set |-> FALSE]
localsOf(t, gs) ==
  IF NoTracks(t) \/ isNullish(t) THEN NoLocals
  ELSE LET counted == genreCounts(gs)
       IN  [set |-> TRUE,
            genreCounts |-> counted,
            popularitySum |-> popularitySum(t.items, 1),
            length |-> Len(t.items),
            moodCounts |-> applyBias(counted, t.items)]

---------------------------------------------------------------------------
(* The classifier's inputs.                                                *)

\* Popularities on both sides of the thresholds 50, 75 and 90; two tracks of
\* 60 and 80 average the threshold 70, two of 60 and 90 the threshold 75.
Popularities == {0, 30, 60, 80, 90}

\* A stored top track; `popularity` is `number | null`, null being a record
\* without the field.
Tracks ==
  {[trackName |-> "A", artistName |-> "X", popularity |-> p] : p \in Popularities}
    \cup {[trackName |-> "A", artistName |-> "X"]}

TrackInputs == {Null} \cup {Array(ts) : ts \in SeqUpTo(Tracks, MaxTracks)}

---------------------------------------------------------------------------
(* The classifier as a state machine: a caller passes the arguments, the   *)
(* function body runs as one step, the caller takes the result.            *)

MoodInit ==
  /\ mpc = "idle"
  /\ tracks = Null
  /\ genres = <<>>
  /\ moodResult = NoCall
  /\ moodLocals = NoLocals

\* A call with genres as the music service reports them; the route collects
\* them without duplicates.
CallMood ==
  /\ mpc = "idle"
  /\ tracks' \in TrackInputs
  /\ genres' \in DistinctSeqUpTo(GenreVocabulary, MaxGenres)
  /\ mpc' = "called"
  /\ UNCHANGED <<moodResult, moodLocals>>
  /\ UNCHANGED bioVars
  /\ UNCHANGED allVars
  /\ UNCHANGED <<storeVars, response>>

\* The lists of at most n of the keywords, in the order of the table.
TableOrderLists(keywords, n) ==
  {[i \in 1..Len(ix) |-> keywords[ix[i]]] :
     ix \in {s \in SeqUpTo(1..Len(keywords), n) :
               \A i \in 1..(Len(s) - 1) : s[i] < s[i + 1]}}

\* A call whose genres are all keywords of one mood's table.
CallMoodKeywords ==
  /\ mpc = "idle"
  /\ tracks' \in TrackInputs
  /\ \E e \in 1..Len(genreCheckList) :
        genres' \in TableOrderLists(genreCheckList[e].keywords, MaxGenres)
  /\ mpc' = "called"
  /\ UNCHANGED <<moodResult, moodLocals>>
  /\ UNCHANGED bioVars
  /\ UNCHANGED allVars
  /\ UNCHANGED <<storeVars, response>>

\* The body of generateMoodFromMusic, from entry to return or throw.
RunMood ==
  /\ mpc = "called"
  /\ moodResult' = generateMoodFromMusic(tracks, genres)
  /\ moodLocals' = localsOf(tracks, genres)
  /\ mpc' = "returned"
  /\ UNCHANGED <<tracks, genres>>
  /\ UNCHANGED bioVars
  /\ UNCHANGED allVars
  /\ UNCHANGED <<storeVars, response>>

\* The caller has consumed the result; nothing of the call is kept.
MoodDone ==
  /\ mpc = "returned"
  /\ mpc' = "idle"
  /\ tracks' = Null
  /\ genres' = <<>>
  /\ moodResult' = NoCall
  /\ moodLocals' = NoLocals
  /\ UNCHANGED bioVars
  /\ UNCHANGED allVars
  /\ UNCHANGED <<storeVars, response>>

---------------------------------------------------------------------------
(* generateBiography (server/ai.ts): texts and helpers.                    *)

\* The static fallback texts, as UTF-16 code units.
fallbackEn ==
  <<73,110,32,116,104,101,32,109,101,108,97,110,99,104,111,108,105,99,
    32,116,119,105,108,105,103,104,116,32,111,102,32,116,104,101,32,101,
    97,114,108,121,32,49,57,55,48,115,44,32,119,104,101,110,32,118,
    105,110,121,108,32,114,101,99,111,114,100,115,32,115,116,105,108,108,
    32,99,97,114,114,105,101,100,32,116,104,101,32,119,101,105,103,104,
    116,32,111,102,32,109,101,109,111,114,105,101,115,32,121,101,116,32,
    116,111,32,98,101,32,102,111,114,109,101,100,44,32,116,104,101,121,
    32,119,97,110,100,101,114,101,100,32,98,101,116,119,101,101,110,32,
    116,104,101,32,114,101,99,111,114,100,32,115,104,111,112,115,32,111,
    102,32,73,115,116,97,110,98,117,108,32,119,105,116,104,32,97,32,
    112,101,99,117,108,105,97,114,32,115,111,108,101,109,110,105,116,121,
    46,32,84,104,101,105,114,32,102,105,110,103,101,114,115,44,32,115,
    116,97,105,110,101,100,32,119,105,116,104,32,99,105,103,97,114,101,
    116,116,101,32,116,114,97,99,101,115,32,97,110,100,32,112,111,101,
    116,114,121,32,105,110,107,44,32,119,111,117,108,100,32,116,114,97,
    99,101,32,97,108,98,117,109,32,115,112,105,110,101,115,32,97,115,
    32,105,102,32,114,101,97,100,105,110,103,32,98,114,97,105,108,108,
    101,8212,101,97,99,104,32,109,101,108,111,100,121,32,97,32,102,111,
    114,103,111,116,116,101,110,32,99,111,110,118,101,114,115,97,116,105,
    111,110,44,32,101,97,99,104,32,114,104,121,116,104,109,32,97,32,
    115,116,114,101,101,116,32,116,104,101,121,32,111,110,99,101,32,107,
    110,101,119,46,32,84,104,101,32,109,117,115,105,99,32,116,104,101,
    121,32,99,111,108,108,101,99,116,101,100,32,115,112,111,107,101,32,
    111,102,32,98,111,116,104,32,69,97,115,116,32,97,110,100,32,87,
    101,115,116,59,32,97,32,102,114,97,99,116,117,114,101,100,32,105,
    100,101,110,116,105,116,121,32,109,105,114,114,111,114,101,100,32,105,
    110,32,116,104,101,32,115,111,110,103,115,32,116,104,97,116,32,102,
    105,108,108,101,100,32,116,104,101,105,114,32,115,105,108,101,110,116,
    32,97,112,97,114,116,109,101,110,116,32,111,118,101,114,108,111,111,
    107,105,110,103,32,116,104,101,32,66,111,115,112,104,111,114,117,115,
    46>>

fallbackTr ==
  <<49,57,55,48,39,108,101,114,105,110,32,109,101,108,97,110,107,111,
    108,105,107,32,97,108,97,99,97,107,97,114,97,110,108,305,287,305,
    110,100,97,44,32,112,108,97,107,32,107,97,121,305,116,108,97,114,
    305,32,104,101,110,252,122,32,111,108,117,351,109,97,109,305,351,32,
    97,110,305,108,97,114,305,110,32,97,287,305,114,108,305,287,305,110,
    305,32,116,97,351,305,114,107,101,110,44,32,111,110,108,97,114,32,
    304,115,116,97,110,98,117,108,39,117,110,32,112,108,97,107,231,305,
    108,97,114,305,32,97,114,97,115,305,110,100,97,32,116,117,104,97,
    102,32,98,105,114,32,99,105,100,100,105,121,101,116,32,105,108,101,
    32,100,111,108,97,351,305,121,111,114,108,97,114,100,305,46,32,83,
    105,103,97,114,97,32,105,122,108,101,114,105,32,118,101,32,351,105,
    105,114,32,109,252,114,101,107,107,101,98,105,121,108,101,32,108,101,
    107,101,108,101,110,109,105,351,32,112,97,114,109,97,107,108,97,114,
    305,44,32,115,97,110,107,105,32,107,246,114,108,101,114,32,97,108,
    102,97,98,101,115,105,32,111,107,117,114,32,103,105,98,105,32,97,
    108,98,252,109,32,115,305,114,116,108,97,114,305,110,100,97,32,103,
    101,122,105,110,105,114,100,105,8212,104,101,114,32,109,101,108,111,100,
    105,32,117,110,117,116,117,108,109,117,351,32,98,105,114,32,115,111,
    104,98,101,116,44,32,104,101,114,32,114,105,116,105,109,32,98,105,
    114,32,122,97,109,97,110,108,97,114,32,98,105,108,100,105,107,108,
    101,114,105,32,98,105,114,32,115,111,107,97,107,116,305,46,32,84,
    111,112,108,97,100,305,107,108,97,114,305,32,109,252,122,105,107,32,
    104,101,109,32,68,111,287,117,39,100,97,110,32,104,101,109,32,66,
    97,116,305,39,100,97,110,32,98,97,104,115,101,100,105,121,111,114,
    100,117,59,32,66,111,287,97,122,39,97,32,98,97,107,97,110,32,
    115,101,115,115,105,122,32,100,97,105,114,101,108,101,114,105,110,105,
    32,100,111,108,100,117,114,97,110,32,351,97,114,107,305,108,97,114,
    100,97,32,121,97,110,115,305,121,97,110,32,112,97,114,231,97,108,
    97,110,109,305,351,32,98,105,114,32,107,105,109,108,105,107,46>>

fallbackKu ==
  <<68,105,32,110,238,118,45,116,97,114,105,121,97,32,109,101,108,97,
    110,107,111,108,97,32,100,101,115,116,112,234,107,97,32,115,97,108,
    234,110,32,49,57,55,48,97,110,32,100,101,44,32,100,101,109,97,
    32,107,117,32,113,101,121,100,234,110,32,118,238,110,238,108,234,32,
    104,238,110,32,103,105,114,97,110,105,121,97,32,98,238,114,97,110,
    238,110,234,110,32,107,117,32,104,234,32,110,101,104,97,116,105,98,
    105,110,32,231,234,107,105,114,105,110,32,104,105,108,100,105,103,105,
    114,116,105,110,44,32,101,119,32,100,105,32,110,97,118,98,101,114,
    97,32,100,105,107,97,110,234,110,32,113,101,121,100,97,110,32,234,
    110,32,83,116,101,110,98,111,108,234,32,100,101,32,98,105,32,99,
    105,100,105,121,101,116,101,107,32,115,101,121,114,32,100,105,231,251,
    110,32,251,32,100,105,104,97,116,105,110,46,32,84,105,108,105,121,
    234,110,32,119,97,110,44,32,98,105,32,351,111,112,234,110,32,99,
    105,103,97,114,101,121,97,110,32,251,32,104,117,98,114,97,32,104,
    101,108,98,101,115,116,234,32,108,101,107,101,107,105,114,238,44,32,
    119,101,107,32,107,117,32,98,114,97,105,108,108,101,32,100,105,120,
    119,238,110,105,110,44,32,108,105,32,115,101,114,32,112,105,351,116,
    97,32,97,108,98,251,109,97,110,32,100,105,231,251,110,32,251,32,
    100,105,104,97,116,105,110,8212,104,101,114,32,109,101,108,111,100,238,
    32,97,120,97,102,116,105,110,101,107,32,106,105,32,98,238,114,107,
    105,114,238,44,32,104,101,114,32,114,238,116,109,32,107,111,108,97,
    110,101,107,32,107,117,32,100,101,109,101,107,234,32,101,119,32,110,
    97,115,32,100,105,107,105,114,105,110,46,32,77,117,122,238,107,97,
    32,107,117,32,119,97,110,32,98,101,114,104,101,118,32,100,105,107,
    105,114,44,32,104,101,109,32,106,105,32,82,111,106,104,105,108,97,
    116,32,251,32,104,101,109,32,106,238,32,106,105,32,82,111,106,97,
    118,97,32,100,105,97,120,105,118,238,59,32,110,97,115,110,97,109,
    101,121,101,107,32,112,97,114,231,101,98,251,121,238,32,107,117,32,
    100,105,32,115,116,114,97,110,234,110,32,107,117,32,120,97,110,105,
    121,234,32,119,97,110,32,234,32,98,234,100,101,110,103,32,234,32,
    108,105,32,115,101,114,32,66,111,287,97,122,238,231,105,121,234,32,
    100,97,103,105,114,116,238,32,100,101,32,100,105,104,97,116,32,110,
    238,351,97,110,100,97,110,46>>

\* The catch block's choice of fallback text: en, tr, and ku for anything
\* else.
fallbackText_trForAll(language) ==
  IF language = "en" THEN fallbackEn ELSE fallbackTr
fallbackText(language) ==
  IF language = "en" THEN fallbackEn
  ELSE IF language = "tr" THEN fallbackTr
  ELSE fallbackKu

\* `text.length > 600 ? text.substring(0, 597) + "..." : text`
truncate_from600(text) ==
  IF Len(text) >= 600 THEN SubSeq(text, 1, 597) \o <<46, 46, 46>> ELSE text
truncate_keeps600(text) ==
  IF Len(text) > 600 THEN SubSeq(text, 1, 600) \o <<46, 46, 46>> ELSE text
truncate(text) ==
  IF Len(text) > 600 THEN SubSeq(text, 1, 597) \o <<46, 46, 46>> ELSE text

\* `completion.choices[0]?.message?.content || ""`
contentOrEmpty(completion) ==
  IF Len(completion.choices) = 0 THEN <<>>
  ELSE IF "content" \in DOMAIN completion.choices[1].message
    THEN completion.choices[1].message.content
    ELSE <<>>

\* tracks.map((track, index) => `${index + 1}. "${track.name}" by ${track.artist}`),
\* the lines later joined by "\n".
tracksText(ts) ==
  [i \in 1..Len(ts) |-> [number |-> i, name |-> ts[i].name, artist |-> ts[i].artist]]

\* The userContext array: one line per non-empty piece of context.
userContext(o) ==
  (IF Len(o.artistGenres) > 0
     THEN <<[label |-> "Favorite music genres", value |-> o.artistGenres]>> ELSE <<>>)
  \o (IF Len(o.topArtists) > 0
        THEN <<[label |-> "Top artists", value |-> o.topArtists]>> ELSE <<>>)
  \o (IF o.mostPlayedSong # ""
        THEN <<[label |-> "Most played song", value |-> <<o.mostPlayedSong>>]>> ELSE <<>>)
  \o (IF Len(o.playlists) > 0
        THEN <<[label |-> "Playlist themes", value |-> o.playlists]>> ELSE <<>>)

\* userContextText with the header put before the lines even when there is
\* no line.
userContextText_alwaysHeader(o) ==
  <<[label |-> "Additional context about the listener", value |-> <<>>]>>
    \o userContext(o)

\* userContextText: the header and the lines, or the empty string.
userContextText(o) ==
  IF Len(userContext(o)) > 0
    THEN <<[label |-> "Additional context about the listener", value |-> <<>>]>>
           \o userContext(o)
    ELSE <<>>

\* buildPrompt greeting the listener by name in the track list.
buildPrompt_named(o) ==
  [template |-> o.language,
   tracksText |-> <<[number |-> 0, name |-> o.userDisplayName, artist |-> ""]>>
                    \o tracksText(o.tracks),
   userContextText |-> userContextText(o)]

\* The prompt: the language's template around tracksText and userContextText.
buildPrompt(o) ==
  [template |-> o.language,
   tracksText |-> tracksText(o.tracks),
   userContextText |-> userContextText(o)]

NoPrompt == [template |-> "none"]

noModelsError == "No AI models available for biography generation"

---------------------------------------------------------------------------
(* generateBiography: inputs and provider behaviour.                       *)

Languages == {"en", "tr", "ku"}

\* The options of a call; mostPlayedSong "" stands for an absent one.
BiographyOptions ==
  [tracks : {<<>>, <<[name |-> "A", artist |-> "X"]>>,
             <<[name |-> "A", artist |-> "X"], [name |-> "B", artist |-> "Y"]>>},
   language : Languages,
   artistGenres : {<<>>, <<"rock">>},
   playlists : {<<>>, <<"Road trip">>},
   topArtists : {<<>>, <<"X">>},
   mostPlayedSong : {"", "\"A\" by X"},
   userDisplayName : {"", "Ada"}]

\* A provider text of n code units (lower-case letters in rotation).
textOfLength(n) == [i \in 1..n |-> 97 + (i % 26)]

\* Lengths of provider texts: empty, short, and around the cap of 600.
TextLengths == {0, 1} \cup ((600 - MaxSlack)..(600 + MaxSlack))
ProviderTexts == {textOfLength(n) : n \in TextLengths}

\* Chat completions the secondary provider may answer with: no choice, a
\* message without content, a message with a text.
Completions ==
  {[choices |-> <<>>], [choices |-> <<[message |-> [role |-> "assistant"]]>>]}
    \cup {[choices |-> <<[message |-> [role |-> "assistant", content |-> t]]>>] :
            t \in ProviderTexts}

\* A provider call that has been issued, and how it ended.
issued(provider, p) == [provider |-> provider, prompt |-> p, outcome |-> "pending"]
resolved(call, text) ==
  [provider |-> call.provider, prompt |-> call.prompt, outcome |-> "ok", text |-> text]
rejected(call) ==
  [provider |-> call.provider, prompt |-> call.prompt, outcome |-> "failed"]

settleLast(calls, call) == [calls EXCEPT ![Len(calls)] = call]

---------------------------------------------------------------------------
(* generateBiography as a state machine: one action per stretch of code    *)
(* between two awaits.                                                     *)

BioInit ==
  /\ genAI \in BOOLEAN        \* module initialisation: a key was configured
  /\ openai \in BOOLEAN
  /\ bpc = "idle"
  /\ options = [language |-> "none"]
  /\ prompt = NoPrompt
  /\ providerCalls = <<>>
  /\ bioResult = NoCall

\* generateBiographyEntry trying DeepSeek first when both handles are set.
generateBiographyEntry_secondaryFirst(o) ==
  /\ options' = o
  /\ IF ~genAI /\ ~openai
       THEN /\ bioResult' = Throw(noModelsError)
            /\ bpc' = "done"
            /\ UNCHANGED <<prompt, providerCalls>>
       ELSE /\ prompt' = buildPrompt(o)
            /\ IF ~openai
                 THEN /\ providerCalls' = <<issued("gemini", prompt')>>
                      /\ bpc' = "awaitGemini"
                 ELSE /\ providerCalls' = <<issued("deepseek", prompt')>>
                      /\ bpc' = "awaitDeepSeek"
            /\ UNCHANGED bioResult
  /\ UNCHANGED <<genAI, openai>>

\* generateBiographyEntry returning the static text, instead of throwing,
\* when no handle is set.
generateBiographyEntry_returnsFallback(o) ==
  /\ options' = o
  /\ IF ~genAI /\ ~openai
       THEN /\ bioResult' = Return(fallbackText(o.language))
            /\ bpc' = "done"
            /\ UNCHANGED <<prompt, providerCalls>>
       ELSE /\ prompt' = buildPrompt(o)
            /\ IF genAI
                 THEN /\ providerCalls' = <<issued("gemini", prompt')>>
                      /\ bpc' = "awaitGemini"
                 ELSE /\ providerCalls' = <<issued("deepseek", prompt')>>
                      /\ bpc' = "awaitDeepSeek"
            /\ UNCHANGED bioResult
  /\ UNCHANGED <<genAI, openai>>

\* generateBiography(o) from its entry to its first await (or its throw).
generateBiographyEntry(o) ==
  /\ options' = o
  /\ IF ~genAI /\ ~openai
       THEN /\ bioResult' = Throw(noModelsError)
            /\ bpc' = "done"
            /\ UNCHANGED <<prompt, providerCalls>>
       ELSE /\ prompt' = buildPrompt(o)
            /\ IF genAI
                 THEN /\ providerCalls' = <<issued("gemini", prompt')>>
                      /\ bpc' = "awaitGemini"
                 ELSE /\ providerCalls' = <<issued("deepseek", prompt')>>
                      /\ bpc' = "awaitDeepSeek"
            /\ UNCHANGED bioResult
  /\ UNCHANGED <<genAI, openai>>

\* The frame of a generateBiography call whose result the caller has taken.
generateBiographyLeft ==
  /\ bpc' = "idle"
  /\ options' = [language |-> "none"]
  /\ prompt' = NoPrompt
  /\ providerCalls' = <<>>
  /\ bioResult' = NoCall
  /\ UNCHANGED <<genAI, openai>>

\* A call of generateBiography on its own.
GenerateBiography ==
  /\ bpc = "idle" /\ apc = "idle"
  /\ \E o \in BiographyOptions : generateBiographyEntry(o)
  /\ UNCHANGED moodVars
  /\ UNCHANGED <<storeVars, response>>
  /\ UNCHANGED allVars

\* model.generateContent(prompt), result.response and response.text() all
\* succeed: the text is truncated and returned.
GeminiResolves ==
  /\ bpc = "awaitGemini"
  /\ \E text \in ProviderTexts :
        /\ providerCalls' =
             settleLast(providerCalls, resolved(providerCalls[Len(providerCalls)], text))
        /\ bioResult' = Return(truncate(text))
  /\ bpc' = "done"
  /\ UNCHANGED <<genAI, openai, options, prompt>>
  /\ UNCHANGED moodVars
  /\ UNCHANGED <<storeVars, response>>
  /\ UNCHANGED allVars

\* GeminiRejects with the rethrown geminiError reaching the caller.
GeminiRejects_propagates ==
  /\ bpc = "awaitGemini"
  /\ LET failed == settleLast(providerCalls, rejected(providerCalls[Len(providerCalls)]))
     IN  IF openai
           THEN /\ providerCalls' = Append(failed, issued("deepseek", prompt))
                /\ bpc' = "awaitDeepSeek"
                /\ UNCHANGED bioResult
           ELSE /\ providerCalls' = failed
                /\ bioResult' = Throw("geminiError")
                /\ bpc' = "done"
  /\ UNCHANGED <<genAI, openai, options, prompt>>
  /\ UNCHANGED moodVars
  /\ UNCHANGED <<storeVars, response>>
  /\ UNCHANGED allVars

\* GeminiRejects calling Gemini a second time before it turns to DeepSeek.
GeminiRejects_retries ==
  /\ bpc = "awaitGemini"
  /\ LET failed == settleLast(providerCalls, rejected(providerCalls[Len(providerCalls)]))
     IN  IF Len(providerCalls) = 1
           THEN /\ providerCalls' = Append(failed, issued("gemini", prompt))
                /\ UNCHANGED <<bpc, bioResult>>
         ELSE IF openai
           THEN /\ providerCalls' = Append(failed, issued("deepseek", prompt))
                /\ bpc' = "awaitDeepSeek"
                /\ UNCHANGED bioResult
           ELSE /\ providerCalls' = failed
                /\ bioResult' = Return(fallbackText(options.language))
                /\ bpc' = "done"
  /\ UNCHANGED <<genAI, openai, options, prompt>>
  /\ UNCHANGED moodVars
  /\ UNCHANGED <<storeVars, response>>
  /\ UNCHANGED allVars

\* GeminiRejects giving up the Gemini handle for the calls to come.
GeminiRejects_disablesGemini ==
  /\ bpc = "awaitGemini"
  /\ LET failed == settleLast(providerCalls, rejected(providerCalls[Len(providerCalls)]))
     IN  IF openai
           THEN /\ providerCalls' = Append(failed, issued("deepseek", prompt))
                /\ bpc' = "awaitDeepSeek"
                /\ UNCHANGED bioResult
           ELSE /\ providerCalls' = failed
                /\ bioResult' = Return(fallbackText(options.language))
                /\ bpc' = "done"
  /\ genAI' = FALSE
  /\ UNCHANGED <<openai, options, prompt>>
  /\ UNCHANGED moodVars
  /\ UNCHANGED <<storeVars, response>>
  /\ UNCHANGED allVars

\* The Gemini call fails: the catch (geminiError) block calls DeepSeek with
\* the same prompt if openai is set, and rethrows into the outer catch, which
\* returns the fallback text, if not.
GeminiRejects ==
  /\ bpc = "awaitGemini"
  /\ LET failed == settleLast(providerCalls, rejected(providerCalls[Len(providerCalls)]))
     IN  IF openai
           THEN /\ providerCalls' = Append(failed, issued("deepseek", prompt))
                /\ bpc' = "awaitDeepSeek"
                /\ UNCHANGED bioResult
           ELSE /\ providerCalls' = failed
                /\ bioResult' = Return(fallbackText(options.language))
                /\ bpc' = "done"
  /\ UNCHANGED <<genAI, openai, options, prompt>>
  /\ UNCHANGED moodVars
  /\ UNCHANGED <<storeVars, response>>
  /\ UNCHANGED allVars

\* DeepSeekResolves taking an empty content for a failure.
DeepSeekResolves_emptyIsFailure ==
  /\ bpc = "awaitDeepSeek"
  /\ \E completion \in Completions :
        /\ providerCalls' =
             settleLast(providerCalls,
                        resolved(providerCalls[Len(providerCalls)], contentOrEmpty(completion)))
        /\ bioResult' =
             IF Len(contentOrEmpty(completion)) = 0
               THEN Return(fallbackText(options.language))
               ELSE Return(truncate(contentOrEmpty(completion)))
  /\ bpc' = "done"
  /\ UNCHANGED <<genAI, openai, options, prompt>>
  /\ UNCHANGED moodVars
  /\ UNCHANGED <<storeVars, response>>
  /\ UNCHANGED allVars

\* openai.chat.completions.create(...) succeeds: its content, or "", is
\* truncated and returned.
DeepSeekResolves ==
  /\ bpc = "awaitDeepSeek"
  /\ \E completion \in Completions :
        /\ providerCalls' =
             settleLast(providerCalls,
                        resolved(providerCalls[Len(providerCalls)], contentOrEmpty(completion)))
        /\ bioResult' = Return(truncate(contentOrEmpty(completion)))
  /\ bpc' = "done"
  /\ UNCHANGED <<genAI, openai, options, prompt>>
  /\ UNCHANGED moodVars
  /\ UNCHANGED <<storeVars, response>>
  /\ UNCHANGED allVars

\* The DeepSeek call fails: rethrown into the outer catch, which returns the
\* fallback text.
DeepSeekRejects ==
  /\ bpc = "awaitDeepSeek"
  /\ providerCalls' = settleLast(providerCalls, rejected(providerCalls[Len(providerCalls)]))
  /\ bioResult' = Return(fallbackText(options.language))
  /\ bpc' = "done"
  /\ UNCHANGED <<genAI, openai, options, prompt>>
  /\ UNCHANGED moodVars
  /\ UNCHANGED <<storeVars, response>>
  /\ UNCHANGED allVars

\* The caller has taken the result; the next call starts afresh.
BioDone ==
  /\ bpc = "done" /\ apc = "idle"
  /\ generateBiographyLeft
  /\ UNCHANGED moodVars
  /\ UNCHANGED <<storeVars, response>>
  /\ UNCHANGED allVars

---------------------------------------------------------------------------
(* generateAllBiographies (server/ai.ts).                                  *)

\* The languages in the order of the three generateBiography calls.
batchLanguages == <<"en", "tr", "ku">>

\* The object of the catch block: the three static texts.
fallbackSet == [en |-> fallbackEn, tr |-> fallbackTr, ku |-> fallbackKu]

\* `extraData?.field || fallback`
extraOr(extraData, field, fallback) ==
  IF isNullish(extraData) THEN fallback
  ELSE IF field \in DOMAIN extraData THEN extraData[field]
  ELSE fallback

\* The options generateAllBiographies passes for one language; an undefined
\* mostPlayedSong or userDisplayName is "", as in BiographyOptions.
optionsFor(args, language) ==
  [tracks |-> args.tracks,
   language |-> language,
   artistGenres |-> extraOr(args.extraData, "artistGenres", <<>>),
   playlists |-> extraOr(args.extraData, "playlists", <<>>),
   topArtists |-> extraOr(args.extraData, "topArtists", <<>>),
   mostPlayedSong |-> extraOr(args.extraData, "mostPlayedSong", ""),
   userDisplayName |-> extraOr(args.extraData, "userDisplayName", "")]

\* Arguments of generateAllBiographies: extraData undefined, without any
\* field, or with every field.
ExtraDatas ==
  {Null,
   [tag |-> "object"],
   [tag |-> "object", artistGenres |-> <<"rock">>, playlists |-> <<"Road trip">>,
    topArtists |-> <<"X">>, mostPlayedSong |-> "A by X", userDisplayName |-> "Ada"]}
AllArgs ==
  {[tracks |-> <<>>, extraData |-> Null]}
    \cup [tracks : {<<[name |-> "A", artist |-> "X"]>>}, extraData : ExtraDatas]

NoArgs == [tracks |-> <<>>, extraData |-> [tag |-> "none"]]

\* Events of the timeline.
called(language) == [event |-> "call", language |-> language]
returned(language) == [event |-> "return", language |-> language]
threw(language) == [event |-> "throw", language |-> language]
delayed == [event |-> "delay", language |-> "none"]

\* The language of the generateBiography call the run is at.
currentLanguage == batchLanguages[Len(bios) + 1]

AllInit ==
  /\ apc = "idle"
  /\ allArgs = NoArgs
  /\ bios = <<>>
  /\ timer = "unset"
  /\ timeline = <<>>
  /\ allResult = NoCall

\* Entry of generateAllBiographies up to its first await: the defaults of
\* extraData and the call for "en".
GenerateAllBiographies ==
  /\ apc = "idle" /\ bpc = "idle"
  /\ \E args \in AllArgs :
        /\ allArgs' = args
        /\ generateBiographyEntry(optionsFor(args, batchLanguages[1]))
  /\ apc' = "awaitBiography"
  /\ timeline' = <<called(batchLanguages[1])>>
  /\ UNCHANGED <<bios, timer, allResult>>
  /\ UNCHANGED moodVars
  /\ UNCHANGED <<storeVars, response>>

\* BiographySettles calling the next language at once, without the delay.
BiographySettles_noDelay ==
  /\ apc = "awaitBiography" /\ bpc = "done"
  /\ IF bioResult.type = "throw"
       THEN /\ allResult' = Return(fallbackSet)
            /\ apc' = "done"
            /\ timeline' = Append(timeline, threw(currentLanguage))
            /\ UNCHANGED bios
            /\ generateBiographyLeft
       ELSE /\ bios' = Append(bios, bioResult.value)
            /\ IF Len(bios') = Len(batchLanguages)
                 THEN /\ allResult' =
                           Return([en |-> bios'[1], tr |-> bios'[2], ku |-> bios'[3]])
                      /\ apc' = "done"
                      /\ timeline' = Append(timeline, returned(currentLanguage))
                      /\ generateBiographyLeft
                 ELSE /\ generateBiographyEntry(
                           optionsFor(allArgs, batchLanguages[Len(bios') + 1]))
                      /\ timeline' =
                           timeline \o <<returned(currentLanguage),
                                         called(batchLanguages[Len(bios') + 1])>>
                      /\ UNCHANGED <<apc, allResult>>
  /\ UNCHANGED <<allArgs, timer>>
  /\ UNCHANGED moodVars
  /\ UNCHANGED <<storeVars, response>>

\* BiographySettles without the try/catch around the three calls.
BiographySettles_rethrows ==
  /\ apc = "awaitBiography" /\ bpc = "done"
  /\ IF bioResult.type = "throw"
       THEN /\ allResult' = Throw(bioResult.error)
            /\ apc' = "done"
            /\ timeline' = Append(timeline, threw(currentLanguage))
            /\ UNCHANGED <<bios, timer>>
       ELSE /\ bios' = Append(bios, bioResult.value)
            /\ timeline' = Append(timeline, returned(currentLanguage))
            /\ IF Len(bios') = Len(batchLanguages)
                 THEN /\ allResult' =
                           Return([en |-> bios'[1], tr |-> bios'[2], ku |-> bios'[3]])
                      /\ apc' = "done"
                      /\ UNCHANGED timer
                 ELSE /\ timer' = "set"
                      /\ apc' = "awaitDelay"
                      /\ UNCHANGED allResult
  /\ generateBiographyLeft
  /\ UNCHANGED allArgs
  /\ UNCHANGED moodVars
  /\ UNCHANGED <<storeVars, response>>

\* BiographySettles with a delay promise that nothing resolves.
BiographySettles_noTimer ==
  /\ apc = "awaitBiography" /\ bpc = "done"
  /\ IF bioResult.type = "throw"
       THEN /\ allResult' = Return(fallbackSet)
            /\ apc' = "done"
            /\ timeline' = Append(timeline, threw(currentLanguage))
            /\ UNCHANGED bios
       ELSE /\ bios' = Append(bios, bioResult.value)
            /\ timeline' = Append(timeline, returned(currentLanguage))
            /\ IF Len(bios') = Len(batchLanguages)
                 THEN /\ allResult' =
                           Return([en |-> bios'[1], tr |-> bios'[2], ku |-> bios'[3]])
                      /\ apc' = "done"
                 ELSE /\ apc' = "awaitDelay"
                      /\ UNCHANGED allResult
  /\ generateBiographyLeft
  /\ UNCHANGED <<allArgs, timer>>
  /\ UNCHANGED moodVars
  /\ UNCHANGED <<storeVars, response>>

\* `await generateBiography(...)` settles.  A rejection lands in the catch
\* block, which returns the static set.  A value is assigned; after enBio
\* and trBio the delay is started, after kuBio the three are returned.
BiographySettles ==
  /\ apc = "awaitBiography" /\ bpc = "done"
  /\ IF bioResult.type = "throw"
       THEN /\ allResult' = Return(fallbackSet)
            /\ apc' = "done"
            /\ timeline' = Append(timeline, threw(currentLanguage))
            /\ UNCHANGED <<bios, timer>>
       ELSE /\ bios' = Append(bios, bioResult.value)
            /\ timeline' = Append(timeline, returned(currentLanguage))
            /\ IF Len(bios') = Len(batchLanguages)
                 THEN /\ allResult' =
                           Return([en |-> bios'[1], tr |-> bios'[2], ku |-> bios'[3]])
                      /\ apc' = "done"
                      /\ UNCHANGED timer
                 ELSE /\ timer' = "set"
                      /\ apc' = "awaitDelay"
                      /\ UNCHANGED allResult
  /\ generateBiographyLeft
  /\ UNCHANGED allArgs
  /\ UNCHANGED moodVars
  /\ UNCHANGED <<storeVars, response>>

\* The timer of the delay fires: the call for the next language.
DelayElapses ==
  /\ apc = "awaitDelay" /\ timer = "set"
  /\ timer' = "unset"
  /\ generateBiographyEntry(optionsFor(allArgs, currentLanguage))
  /\ apc' = "awaitBiography"
  /\ timeline' = timeline \o <<delayed, called(currentLanguage)>>
  /\ UNCHANGED <<allArgs, bios, allResult>>
  /\ UNCHANGED moodVars
  /\ UNCHANGED <<storeVars, response>>

\* The route has taken the result; the next run starts afresh.
AllDone ==
  /\ apc = "done"
  /\ apc' = "idle"
  /\ allArgs' = NoArgs
  /\ bios' = <<>>
  /\ timeline' = <<>>
  /\ allResult' = NoCall
  /\ UNCHANGED timer
  /\ UNCHANGED bioVars
  /\ UNCHANGED moodVars
  /\ UNCHANGED <<storeVars, response>>

---------------------------------------------------------------------------
(* The in-memory store (MemStorage) and the two routes that write users    *)
(* and biographies.  A record carries the fields that decide where it is   *)
(* stored; refreshToken, tokenExpiry, profileImage, createdAt and the      *)
(* album fields are left out.                                              *)

Undefined == [tag |-> "undefined"]

\* new Map()
EmptyMap == <<>>

\* map.set(key, value)
mapSet(map, key, value) ==
  [k \in DOMAIN map \cup {key} |-> IF k = key THEN value ELSE map[k]]

\* map.delete(key) for every key of keys
mapDelete(map, keys) == [k \in DOMAIN map \ keys |-> map[k]]

\* { ...a, ...b }
spread(a, b) ==
  [f \in DOMAIN a \cup DOMAIN b |-> IF f \in DOMAIN b THEN b[f] ELSE a[f]]

\* Array.from(map.values()).find(test): the first value in insertion order;
\* the keys are inserted in increasing order.
findFirst(map, matching) ==
  IF matching = {} THEN Undefined
  ELSE map[CHOOSE k \in matching : \A j \in matching : k <= j]

getUserBySpotifyId(us, spotifyId) ==
  findFirst(us, {k \in DOMAIN us : us[k].spotifyId = spotifyId})

\* createUser with the id it took from this.userId
createUser(us, id, insertUser) ==
  mapSet(us, id, [id |-> id,
                  spotifyId |-> insertUser.spotifyId,
                  displayName |-> insertUser.displayName,
                  accessToken |-> insertUser.accessToken])

\* updateUser; it throws for an id that is not stored, and the routes pass
\* the id of a record they have just read.
updateUser(us, id, userData) ==
  IF id \in DOMAIN us THEN mapSet(us, id, spread(us[id], userData)) ELSE us

\* clearUserTopTracks
clearUserTopTracks(ts, uid) ==
  mapDelete(ts, {k \in DOMAIN ts : ts[k].userId = uid})

\* createTopTrack with the id it took from this.trackId
createTopTrack(ts, id, insertTrack) ==
  mapSet(ts, id, [id |-> id,
                  userId |-> insertTrack.userId,
                  spotifyTrackId |-> insertTrack.spotifyTrackId,
                  trackName |-> insertTrack.trackName,
                  artistName |-> insertTrack.artistName])

\* getUserBiography looking the userId up as a key of the map.
getUserBiography_byKey(bs, uid) ==
  IF uid \in DOMAIN bs THEN bs[uid] ELSE Undefined

getUserBiography(bs, uid) ==
  findFirst(bs, {k \in DOMAIN bs : bs[k].userId = uid})

\* createUserBiography with the id it took from this.biographyId
createUserBiography(bs, id, insertBiography) ==
  mapSet(bs, id, spread(insertBiography, [id |-> id]))

\* updateUserBiography; it throws when the user has no biography, and the
\* routes call it after getUserBiography has found one.
updateUserBiography(bs, uid, biographyData) ==
  LET biography == getUserBiography(bs, uid)
  IN  IF biography = Undefined THEN bs
      ELSE mapSet(bs, biography.id, spread(biography, biographyData))

\* What the routes are answered and asked from outside.
SpotifyIds == {"s1", "s2"}
DisplayNames == {"Ada"}
AccessTokens == {"t1", "t2"}
SpotifyItems == {[id |-> "a", name |-> "A", artist |-> "X"]}
BatchResults ==
  {fallbackSet,
   [en |-> textOfLength(1), tr |-> textOfLength(2), ku |-> textOfLength(3)]}

\* Responses.
status(code) == [kind |-> "status", code |-> code]
redirect(to) == [kind |-> "redirect", to |-> to]
NoResponse == [kind |-> "none"]

StoreInit ==
  /\ users = EmptyMap
  /\ topTracks = EmptyMap
  /\ biographies = EmptyMap
  /\ userId = 1
  /\ trackId = 1
  /\ biographyId = 1
  /\ response = NoResponse

\* `existingUser ? updateUser(existingUser.id, data) : createUser(data)`,
\* written into users' and userId'; the user it gives is users'[savedUserId].
savedUserId(userData) ==
  LET existingUser == getUserBySpotifyId(users, userData.spotifyId)
  IN  IF existingUser # Undefined THEN existingUser.id ELSE userId
saveUser(userData) ==
  LET existingUser == getUserBySpotifyId(users, userData.spotifyId)
  IN  IF existingUser # Undefined
        THEN /\ users' = updateUser(users, existingUser.id, userData)
             /\ UNCHANGED userId
        ELSE /\ users' = createUser(users, userId, userData)
             /\ userId' = userId + 1

\* clearUserTopTracks(user.id) and createTopTrack for the first n items.
RECURSIVE createTopTracks(_, _, _, _, _)
createTopTracks(ts, id, uid, items, n) ==
  IF n = 0 THEN ts
  ELSE createTopTrack(createTopTracks(ts, id, uid, items, n - 1), id + n - 1,
                      [userId |-> uid, spotifyTrackId |-> items[n].id,
                       trackName |-> items[n].name, artistName |-> items[n].artist])
saveTopTracks(uid, items, n) ==
  /\ topTracks' = createTopTracks(clearUserTopTracks(topTracks, uid), trackId, uid, items, n)
  /\ trackId' = trackId + n

\* `existingBiography ? updateUserBiography(user.id, data)
\*                    : createUserBiography(data)`
saveBiography(uid, result) ==
  LET biographyData == [userId |-> uid, biographyEn |-> result.en,
                        biographyTr |-> result.tr, biographyKu |-> result.ku]
  IN  IF getUserBiography(biographies, uid) # Undefined
        THEN /\ biographies' = updateUserBiography(biographies, uid, biographyData)
             /\ UNCHANGED biographyId
        ELSE /\ biographies' = createUserBiography(biographies, biographyId, biographyData)
             /\ biographyId' = biographyId + 1

\* GET /api/auth/callback, from the request to the response.  The catch
\* block is entered from getSpotifyToken, getSpotifyUserProfile or the
\* validation of userData (nothing is stored yet), from the three reads of
\* Promise.all (the user is stored), or from the validation of an item (the
\* user and the items before it are stored).  generateAllBiographies does
\* not throw.
UserDatas ==
  [spotifyId : SpotifyIds, displayName : DisplayNames, accessToken : AccessTokens]

AuthCallback ==
  /\ \/ /\ response' = status(400)               \* no code in the query
        /\ UNCHANGED storeVars
     \/ /\ response' = redirect("/?auth=error")   \* token, profile, validation
        /\ UNCHANGED storeVars
     \/ \E userData \in UserDatas :
          /\ saveUser(userData)
          /\ \/ /\ response' = redirect("/?auth=error")   \* Promise.all
                /\ UNCHANGED <<topTracks, trackId, biographies, biographyId>>
             \/ \E items \in SeqUpTo(SpotifyItems, MaxItems) :
                  /\ trackId + Len(items) <= MaxTrackId + 1
                  /\ \/ \E failedItem \in 1..Len(items) :
                          /\ saveTopTracks(savedUserId(userData), items, failedItem - 1)
                          /\ response' = redirect("/?auth=error")
                          /\ UNCHANGED <<biographies, biographyId>>
                     \/ \E result \in BatchResults :
                          /\ saveTopTracks(savedUserId(userData), items, Len(items))
                          /\ saveBiography(savedUserId(userData), result)
                          /\ response' = redirect("/?auth=success")
  /\ UNCHANGED moodVars
  /\ UNCHANGED bioVars
  /\ UNCHANGED allVars

\* GET /api/generate-biography, from the request to the response.  With
\* `now > user.tokenExpiry` the token is refreshed and the user updated, or
\* the request ends with 401; then the reads of Promise.all fail (500) or
\* the biographies are generated and saved.
refreshedUsers(user) ==
  {users} \cup
    {updateUser(users, user.id, spread(user, [accessToken |-> token])) :
       token \in AccessTokens}

GenerateBiographyRoute ==
  /\ \E spotifyId \in SpotifyIds \cup {""} :
       IF spotifyId = ""
         THEN /\ response' = status(400)
              /\ UNCHANGED storeVars
       ELSE IF getUserBySpotifyId(users, spotifyId) = Undefined
         THEN /\ response' = status(404)
              /\ UNCHANGED storeVars
       ELSE LET user == getUserBySpotifyId(users, spotifyId)
            IN  \/ /\ response' = status(401)
                   /\ UNCHANGED storeVars
                \/ /\ users' \in refreshedUsers(user)
                   /\ \/ /\ response' = status(500)
                         /\ UNCHANGED <<biographies, biographyId>>
                      \/ \E result \in BatchResults :
                           /\ saveBiography(user.id, result)
                           /\ response' = status(200)
                   /\ UNCHANGED <<userId, topTracks, trackId>>
  /\ UNCHANGED moodVars
  /\ UNCHANGED bioVars
  /\ UNCHANGED allVars

---------------------------------------------------------------------------
(* Specifications.                                                         *)

vars == <<moodVars, bioVars, allVars, storeVars, response>>

Init == MoodInit /\ BioInit /\ AllInit /\ StoreInit

\* The biography generator, the classifier idle.
Next ==
  \/ GenerateBiography
  \/ GeminiResolves
  \/ GeminiRejects
  \/ DeepSeekResolves
  \/ DeepSeekRejects
  \/ BioDone

Spec == Init /\ [][Next]_vars

\* The server with both providers configured, everything idle.
InitMood == Init /\ genAI /\ openai

\* The mood classifier.
NextMood == CallMood \/ CallMoodKeywords \/ RunMood \/ MoodDone

SpecMood == InitMood /\ [][NextMood]_vars

\* The classifier on the genres of the music service alone.
NextCounts == CallMood \/ RunMood \/ MoodDone

SpecCounts == InitMood /\ [][NextCounts]_vars

\* Runs of generateAllBiographies, the classifier idle.
NextAll ==
  \/ GenerateAllBiographies
  \/ GeminiResolves
  \/ GeminiRejects
  \/ DeepSeekResolves
  \/ DeepSeekRejects
  \/ BiographySettles
  \/ DelayElapses
  \/ AllDone

SpecAll == Init /\ [][NextAll]_vars

\* The three components, called one at a time: a call is taken when the
\* other two components are idle.  Each component has its own variables,
\* so what a step of one changes does not depend on where the others are.
\* The classifier reads neither handle; as in SpecMood its calls are taken
\* on the server with both providers configured.
ClassifierCall == bpc = "idle" /\ apc = "idle" /\ genAI /\ openai /\ CallMood
BiographyCall == mpc = "idle" /\ GenerateBiography
BatchCall == mpc = "idle" /\ GenerateAllBiographies

NextComponents ==
  \/ ClassifierCall
  \/ RunMood
  \/ MoodDone
  \/ BiographyCall
  \/ BatchCall
  \/ GeminiResolves
  \/ GeminiRejects
  \/ DeepSeekResolves
  \/ DeepSeekRejects
  \/ BioDone
  \/ BiographySettles
  \/ DelayElapses
  \/ AllDone

SpecComponents == Init /\ [][NextComponents]_vars

\* Requests to the two routes on a server with both providers configured,
\* each answered before the next is taken; the components the routes call
\* are not stepped through.
NextStore == AuthCallback \/ GenerateBiographyRoute

SpecStore == InitMood /\ [][NextStore]_vars

\* The same runs where every provider call is eventually answered, every
\* timer eventually fires and every settled promise is eventually taken up.
FairSpecAll ==
  /\ SpecAll
  /\ WF_vars(GeminiResolves \/ GeminiRejects)
  /\ WF_vars(DeepSeekResolves \/ DeepSeekRejects)
  /\ WF_vars(BiographySettles)
  /\ WF_vars(DelayElapses)

---------------------------------------------------------------------------
(* Properties of the mood classifier.                                      *)

moodReturned == mpc = "returned" /\ moodResult.type = "return"
someTracks == ~isNullish(tracks) /\ Len(tracks.items) > 0
emptyTracks == ~isNullish(tracks) /\ Len(tracks.items) = 0

\* C1: a call with an empty track list returns, whatever the genres, exactly
\* the default mood: Nostalgic / Thoughtful and the fixed description.
C1_EmptyTracksDefault ==
  (mpc = "returned" /\ emptyTracks) =>
     moodResult =
       [type |-> "return",
        value |-> [primary |-> <<"N","o","s","t","a","l","g","i","c">>,
                   secondary |-> <<"T","h","o","u","g","h","t","f","u","l">>,
                   description |-> "You find comfort in songs that remind you of meaningful moments."]]

C1_Witness ==
  mpc = "returned" /\ emptyTracks /\ Len(genres) = 2 /\ moodResult.type = "return"

\* C2 as stated: every returned mood has the four fields primary, secondary,
\* description and recommendation.
C2_FourFields ==
  moodReturned =>
     DOMAIN moodResult.value = {"primary", "secondary", "description", "recommendation"}

\* C2 as amended: every returned mood has primary, secondary and
\* description; recommendation is present exactly when the track list is
\* not empty (the default mood has no recommendation).
C2_ThreeFieldsAndRecommendation ==
  moodReturned =>
     /\ {"primary", "secondary", "description"} \subseteq DOMAIN moodResult.value
     /\ DOMAIN moodResult.value \subseteq
           {"primary", "secondary", "description", "recommendation"}
     /\ ("recommendation" \in DOMAIN moodResult.value) <=> someTracks
     /\ Len(moodResult.value.primary) > 0
     /\ Len(moodResult.value.secondary) > 0
     /\ moodResult.value.description # ""

C2_Witness ==
  /\ moodReturned /\ someTracks
  /\ "recommendation" \in DOMAIN moodResult.value
  /\ moodResult.value.recommendation # ""

C3Tracks == Array(<<[trackName |-> "A", artistName |-> "X", popularity |-> 80]>>)
C3Genres == << <<"a","m","b","i","e","n","t">>, <<"c","h","i","l","l">> >>

\* C3 as stated: one track of popularity 80 with genres ambient, chill gives
\* primary Relaxed.
C3_Relaxed ==
  (moodReturned /\ tracks = C3Tracks /\ genres = C3Genres) =>
     moodResult.value.primary = <<"R","e","l","a","x","e","d">>

\* C3 as amended: that input gives primary Energetic and secondary Relaxed
\* (the bias of 2 on energetic ties relaxed's two genre matches, and
\* energetic comes first in the table).
C3_EnergeticThenRelaxed ==
  (moodReturned /\ tracks = C3Tracks /\ genres = C3Genres) =>
     /\ moodResult.value.primary = <<"E","n","e","r","g","e","t","i","c">>
     /\ moodResult.value.secondary = <<"R","e","l","a","x","e","d">>

C3_Witness == moodReturned /\ tracks = C3Tracks /\ genres = C3Genres

allKeywordsOf(m, gs) == \A j \in 1..Len(gs) : gs[j] \in keywordsOf(m)
noBias(ts) == ~avgGreater(ts, 75) /\ ~avgLess(ts, 50)
earlierMoodMatchesAll(m, gs) ==
  \E e \in 1..(entryOf[m] - 1) : \A j \in 1..Len(gs) : genreHits[gs[j]][e] = 1

\* C4 as stated: genres that are all keywords of mood m, with any non-empty
\* track list, give primary Capitalize(m).
C4_KeywordMoodIsPrimary ==
  (moodReturned /\ someTracks /\ Len(genres) > 0) =>
     \A m \in Moods :
        allKeywordsOf(m, genres) => moodResult.value.primary = Capitalize(m)

\* C4 as amended: genres that are all keywords of mood m give primary
\* Capitalize(m) when the average popularity is between 50 and 75 (no bias)
\* and no mood listed before m has a keyword inside every one of the genres.
C4_KeywordMoodIsPrimaryUnlessBiasOrEarlier ==
  (moodReturned /\ someTracks /\ Len(genres) > 0 /\ noBias(tracks.items)) =>
     \A m \in Moods :
        (allKeywordsOf(m, genres) /\ ~earlierMoodMatchesAll(m, genres))
          => moodResult.value.primary = Capitalize(m)

C4_Witness ==
  /\ moodReturned /\ someTracks /\ Len(genres) = 2 /\ genres[1] # genres[2]
  /\ allKeywordsOf(romantic, genres)
  /\ noBias(tracks.items)
  /\ ~earlierMoodMatchesAll(romantic, genres)
  /\ \E j \in 1..2 : genreHits[genres[j]][entryOf[melancholic]] = 1
  /\ moodResult.value.primary = <<"R","o","m","a","n","t","i","c">>

allPopular(ts) ==
  \A i \in 1..Len(ts) : "popularity" \in DOMAIN ts[i] /\ ts[i].popularity >= 90
\* No genre contains a keyword, letter case aside (genres reach the
\* classifier in lower case; it lowercases them again before matching).
noGenreSignal(gs) ==
  \A j \in 1..Len(gs) : \A e \in 1..Len(genreCheckList) :
     \A k \in 1..Len(genreCheckList[e].keywords) :
        ~includes(toLowerCase(gs[j]), genreCheckList[e].keywords[k])

\* C5: tracks that all have popularity 90 or more, with genres none of which
\* contains a mood keyword, give Energetic / Happy.
C5_PopularNoSignal ==
  (moodReturned /\ someTracks /\ allPopular(tracks.items) /\ noGenreSignal(genres)) =>
     /\ moodResult.value.primary = <<"E","n","e","r","g","e","t","i","c">>
     /\ moodResult.value.secondary = <<"H","a","p","p","y">>

C5_Witness ==
  /\ moodReturned /\ someTracks
  /\ Len(tracks.items) = MaxTracks /\ allPopular(tracks.items)
  /\ Len(genres) > 0 /\ noGenreSignal(genres)
  /\ moodResult.value.primary = <<"E","n","e","r","g","e","t","i","c">>

\* C7: no call of the classifier throws: with the track list missing, empty
\* or holding tracks with or without a popularity, and with any genre list,
\* the call returns a mood record.
C7_NeverThrows ==
  mpc = "returned" =>
     /\ moodResult.type = "return"
     /\ {"primary", "secondary", "description"} \subseteq DOMAIN moodResult.value

C7_Witness ==
  /\ mpc = "returned" /\ moodResult.type = "return"
  /\ someTracks /\ "popularity" \notin DOMAIN tracks.items[1]
  /\ Len(genres) > 0 /\ ~noGenreSignal(genres)

---------------------------------------------------------------------------
(* Properties of generateBiography.                                        *)

bioDone == bpc = "done"
lastCall == providerCalls[Len(providerCalls)]
allCallsFailed ==
  /\ Len(providerCalls) > 0
  /\ \A i \in 1..Len(providerCalls) : providerCalls[i].outcome = "failed"

\* C8: when every provider call of an invocation has failed, the invocation
\* returns (does not throw) exactly the static fallback text of the
\* requested language.
C8_AllFailedFallback ==
  (bioDone /\ allCallsFailed) =>
     /\ bioResult.type = "return"
     /\ options.language = "en" => bioResult.value = fallbackEn
     /\ options.language = "tr" => bioResult.value = fallbackTr
     /\ options.language = "ku" => bioResult.value = fallbackKu

C8_Witness ==
  /\ bioDone /\ allCallsFailed /\ Len(providerCalls) = 2
  /\ options.language = "ku" /\ bioResult = Return(fallbackKu)

\* C9: generateBiography throws exactly when neither provider is configured,
\* and then it throws the "no AI models available" error with no prompt
\* built and no provider called.
C9_ThrowsIffNoProvider ==
  bioDone =>
     /\ (bioResult.type = "throw") <=> (~genAI /\ ~openai)
     /\ bioResult.type = "throw" =>
          /\ bioResult.error = "No AI models available for biography generation"
          /\ prompt = NoPrompt
          /\ providerCalls = <<>>

C9_Witness ==
  bioDone /\ bioResult.type = "throw" /\ options.language = "tr" /\ ~genAI /\ ~openai

\* C10: a provider text longer than 600 is returned as its first 597 code
\* units followed by "...", 600 in all; a text of at most 600 is returned
\* unchanged; for the primary and the secondary provider alike.
C10_Truncation ==
  (bioDone /\ Len(providerCalls) > 0 /\ lastCall.outcome = "ok") =>
     /\ bioResult.type = "return"
     /\ Len(lastCall.text) > 600 =>
          /\ Len(bioResult.value) = 600
          /\ SubSeq(bioResult.value, 1, 597) = SubSeq(lastCall.text, 1, 597)
          /\ SubSeq(bioResult.value, 598, 600) = <<46, 46, 46>>
     /\ Len(lastCall.text) <= 600 => bioResult.value = lastCall.text

C10_Witness ==
  /\ bioDone /\ Len(providerCalls) = 2 /\ lastCall.outcome = "ok"
  /\ lastCall.provider = "deepseek"
  /\ Len(lastCall.text) = 601 /\ Len(bioResult.value) = 600

---------------------------------------------------------------------------
(* Properties of generateAllBiographies and of the calls it makes.         *)

allDone == apc = "done"
pendingCalls == {i \in 1..Len(providerCalls) : providerCalls[i].outcome = "pending"}
succeededCalls == {i \in 1..Len(providerCalls) : providerCalls[i].outcome = "ok"}
callsOf(provider) == {i \in 1..Len(providerCalls) : providerCalls[i].provider = provider}
eventsAt(event) == {k \in 1..Len(timeline) : timeline[k].event = event}

\* C11: every string generateBiography returns, and each of the three
\* strings generateAllBiographies returns, has at most 600 code units, be it
\* a provider's text or a static text.
C11_AtMost600 ==
  /\ (bioDone /\ bioResult.type = "return") => Len(bioResult.value) <= 600
  /\ (allDone /\ allResult.type = "return") =>
        \A i \in 1..Len(batchLanguages) : Len(allResult.value[batchLanguages[i]]) <= 600

C11_Witness ==
  /\ allDone /\ allResult.type = "return" /\ Cardinality(eventsAt("return")) = 3
  /\ Len(allResult.value.en) = 600
  /\ allResult.value.tr = fallbackTr
  /\ Len(allResult.value.ku) = 599

\* C12: in one run of generateAllBiographies the calls of generateBiography
\* are for en, tr, ku in this order; each call but the first comes right
\* after the delay that followed the return of the call before it; at most
\* one provider call is pending at any time, and none during a delay.
C12_Sequential ==
  /\ Cardinality(eventsAt("call")) <= Len(batchLanguages)
  /\ \A k \in eventsAt("call") :
        LET n == Cardinality({j \in eventsAt("call") : j <= k})
        IN  /\ timeline[k].language = batchLanguages[n]
            /\ n > 1 =>
                  /\ k >= 3
                  /\ timeline[k - 1] = delayed
                  /\ timeline[k - 2] = returned(batchLanguages[n - 1])
  /\ Cardinality(pendingCalls) <= 1
  /\ apc = "awaitDelay" => providerCalls = <<>>

C12_Witness ==
  /\ apc = "awaitBiography" /\ bpc = "awaitDeepSeek"
  /\ timeline = <<called("en"), returned("en"), delayed,
                  called("tr"), returned("tr"), delayed, called("ku")>>

\* C13: generateAllBiographies always returns, never throws, an object with
\* the keys en, tr and ku; and when a generateBiography call threw, the
\* object is the set of the three static texts.
C13_NeverPropagates ==
  allDone =>
     /\ allResult.type = "return"
     /\ DOMAIN allResult.value = {"en", "tr", "ku"}
     /\ eventsAt("throw") # {} => allResult.value = fallbackSet

C13_Witness ==
  /\ allDone /\ ~genAI /\ ~openai
  /\ timeline = <<called("en"), threw("en")>>
  /\ allResult = Return(fallbackSet)

\* C14 as stated: the first provider call of an invocation goes to the
\* primary provider (Gemini), and every call to the secondary provider
\* (DeepSeek) follows a failed primary call of the same invocation.
C14_PrimaryFirst ==
  /\ Len(providerCalls) > 0 => providerCalls[1].provider = "gemini"
  /\ \A i \in callsOf("deepseek") :
        /\ i > 1
        /\ providerCalls[i - 1].provider = "gemini"
        /\ providerCalls[i - 1].outcome = "failed"

\* C14: with the primary provider configured, the first provider call goes
\* to it and the secondary provider is called only after that call has
\* failed; with only the secondary provider configured, the secondary
\* provider is called directly, as the first and only call.
C14_PrimaryFirstWhenConfigured ==
  /\ bpc = "awaitGemini" => (genAI /\ lastCall = issued("gemini", prompt))
  /\ bpc = "awaitDeepSeek" => (openai /\ lastCall = issued("deepseek", prompt))
  /\ Len(providerCalls) > 0 =>
        providerCalls[1].provider = (IF genAI THEN "gemini" ELSE "deepseek")
  /\ \A i \in callsOf("deepseek") :
        IF genAI
          THEN /\ i = 2
               /\ providerCalls[1].provider = "gemini"
               /\ providerCalls[1].outcome = "failed"
          ELSE i = 1 /\ Len(providerCalls) = 1

C14_Witness ==
  /\ bpc = "awaitDeepSeek" /\ genAI /\ openai /\ options.language = "en"
  /\ Len(providerCalls) = 2
  /\ providerCalls[1] = rejected(issued("gemini", prompt))

\* C15: one invocation calls Gemini at most once and DeepSeek at most once;
\* once the Gemini call has failed and DeepSeek is configured, DeepSeek has
\* been called exactly once, with the prompt that was sent to Gemini.
C15_OneAttemptEach ==
  /\ Cardinality(callsOf("gemini")) <= 1
  /\ Cardinality(callsOf("deepseek")) <= 1
  /\ (/\ Len(providerCalls) > 0
      /\ providerCalls[1].provider = "gemini"
      /\ providerCalls[1].outcome = "failed"
      /\ openai) =>
        /\ Cardinality(callsOf("deepseek")) = 1
        /\ providerCalls[2].provider = "deepseek"
        /\ providerCalls[2].prompt = providerCalls[1].prompt
        /\ providerCalls[1].prompt = buildPrompt(options)

C15_Witness ==
  /\ bioDone /\ Len(providerCalls) = 2
  /\ providerCalls[1].outcome = "failed" /\ providerCalls[2].outcome = "failed"
  /\ Len(providerCalls[2].prompt.userContextText) = 5
  /\ options.language = "tr"

\* C16: when the Gemini call succeeds, its truncated text is returned and
\* DeepSeek is not called; when the Gemini call fails and the DeepSeek call
\* succeeds, the truncated DeepSeek text is returned; a static text is
\* returned only when no provider call has succeeded.  (No provider text of
\* the model is one of the static texts.)
C16_Provenance ==
  bioDone =>
     /\ (Len(providerCalls) > 0 /\ providerCalls[1].provider = "gemini"
           /\ providerCalls[1].outcome = "ok") =>
          /\ bioResult = Return(truncate(providerCalls[1].text))
          /\ callsOf("deepseek") = {}
     /\ (Len(providerCalls) = 2 /\ providerCalls[1].outcome = "failed"
           /\ providerCalls[2].outcome = "ok") =>
          bioResult = Return(truncate(providerCalls[2].text))
     /\ (bioResult.type = "return" /\ bioResult.value = fallbackText(options.language)) =>
          succeededCalls = {}

C16_Witness ==
  /\ bioDone /\ genAI /\ openai /\ options.language = "ku"
  /\ Len(providerCalls) = 1 /\ providerCalls[1].outcome = "ok"
  /\ Len(providerCalls[1].text) = 599 /\ bioResult.value = providerCalls[1].text

\* C17: when every provider call is eventually answered and every delay
\* eventually elapses, a generateBiography call that has called a provider
\* eventually returns a string (a provider's text or a static text), and a
\* generateAllBiographies run eventually returns its result.
C17_Termination ==
  /\ (bpc \in {"awaitGemini", "awaitDeepSeek"}) ~> (bioDone /\ bioResult.type = "return")
  /\ (apc \in {"awaitBiography", "awaitDelay"}) ~> (allDone /\ allResult.type = "return")

C17_Witness ==
  /\ allDone /\ allResult.type = "return" /\ genAI /\ openai
  /\ Len(timeline) = 8
  /\ allResult.value.en = fallbackEn /\ Len(allResult.value.tr) = 1
  /\ allResult.value.ku = fallbackKu

---------------------------------------------------------------------------
(* Properties of the classifier's counting, averaging and bias.            *)

localsSet == mpc = "returned" /\ moodLocals.set

\* The keywords of the mood at entry e that the lowercased genre contains.
keywordsIn(genre, e) ==
  {i \in 1..Len(genreCheckList[e].keywords) :
     includes(toLowerCase(genre), genreCheckList[e].keywords[i])}
keywordsInTable ==
  [g \in GenreUniverse |-> [e \in 1..Len(genreCheckList) |-> keywordsIn(g, e)]]

\* C18: before the bias, the count of each mood is the number of entries of
\* the genre list whose lowercased text contains at least one keyword of the
\* mood: a genre with several keywords of the mood adds 1, and a genre adds
\* 1 to every mood it has a keyword of.
C18_GenreCounting ==
  localsSet =>
     LET found == [j \in 1..Len(genres) |-> keywordsInTable[genres[j]]]
     IN  \A e \in 1..Len(genreCheckList) :
            moodLocals.genreCounts[e] =
              Cardinality({j \in 1..Len(genres) : found[j][e] # {}})

C18_Witness ==
  /\ localsSet /\ Len(genres) = 2
  /\ Cardinality(keywordsInTable[genres[1]][entryOf[energetic]]) = 2
  /\ keywordsInTable[genres[1]][entryOf[happy]] # {}
  /\ keywordsInTable[genres[2]][entryOf[energetic]] # {}
  /\ moodLocals.genreCounts[entryOf[energetic]] = 2
  /\ moodLocals.genreCounts[entryOf[happy]] = 1

\* The sum of the popularities where only an absent one counts as 50.
RECURSIVE presentOr50Sum(_, _)
presentOr50Sum(ts, i) ==
  IF i > Len(ts) THEN 0
  ELSE (IF "popularity" \in DOMAIN ts[i] THEN ts[i].popularity ELSE 50)
         + presentOr50Sum(ts, i + 1)

\* C19 as stated: averagePopularity is the mean of the tracks' popularities
\* where an absent popularity counts as 50 and a present one, 0 included,
\* as itself.
C19_MeanAbsentAs50 ==
  localsSet =>
     /\ moodLocals.length = Len(tracks.items)
     /\ moodLocals.popularitySum = presentOr50Sum(tracks.items, 1)

\* What the bias adds to the count of mood m, by the sum and the length
\* that averagePopularity was computed from.
biasOf(m) ==
  IF moodLocals.popularitySum > 75 * moodLocals.length
    THEN (IF m = energetic THEN 2 ELSE IF m = happy THEN 1 ELSE 0)
  ELSE IF moodLocals.popularitySum < 50 * moodLocals.length
    THEN (IF m \in {thoughtful, melancholic} THEN 1 ELSE 0)
  ELSE 0

\* C20: the bias adds to the counts of the genre loop: 2 to energetic and 1
\* to happy when averagePopularity > 75, 1 to thoughtful and 1 to
\* melancholic when averagePopularity < 50, nothing when it is from 50 to
\* 75; the counts of the other moods are as the genre loop left them.
C20_BiasAdded ==
  localsSet =>
     \A e \in 1..Len(genreCheckList) :
        moodLocals.moodCounts[e] =
          moodLocals.genreCounts[e] + biasOf(genreCheckList[e].mood)

C20_Witness ==
  /\ localsSet /\ moodLocals.popularitySum = 75 * moodLocals.length
  /\ moodLocals.length = 2
  /\ moodLocals.genreCounts[entryOf[energetic]] = 1
  /\ moodLocals.moodCounts = moodLocals.genreCounts

---------------------------------------------------------------------------
(* Properties of the classifier's selection and of the record it returns.  *)

\* The highest of the counts, and the first entry of the table, other than
\* entry `but`, that has count c.
highestOf(counts, but) ==
  CHOOSE c \in {counts[e] : e \in (1..Len(counts)) \ {but}} :
    \A e \in (1..Len(counts)) \ {but} : counts[e] <= c
firstWith(counts, c, but) ==
  CHOOSE e \in (1..Len(counts)) \ {but} :
    /\ counts[e] = c
    /\ \A d \in (1..e - 1) \ {but} : counts[d] # c
firstHighest(counts, but) == firstWith(counts, highestOf(counts, but), but)

averageAbove(k) == moodLocals.popularitySum > k * moodLocals.length
averageBelow(k) == moodLocals.popularitySum < k * moodLocals.length
returnedMoods(p, s) ==
  /\ moodResult.value.primary = Capitalize(p)
  /\ moodResult.value.secondary = Capitalize(s)

\* C21: when the highest final count is above 0, primary is the first mood
\* of the table among those with the highest count, and secondary the first
\* mood of the table, other than primary, with the highest count among the
\* other eight.
C21_TieBreak ==
  (localsSet /\ highestOf(moodLocals.moodCounts, 0) > 0) =>
     LET first == firstHighest(moodLocals.moodCounts, 0)
         second == firstHighest(moodLocals.moodCounts, first)
     IN  returnedMoods(genreCheckList[first].mood, genreCheckList[second].mood)

C21_Witness ==
  /\ localsSet
  /\ highestOf(moodLocals.moodCounts, 0) > 0
  /\ LET first == firstHighest(moodLocals.moodCounts, 0)
         second == firstHighest(moodLocals.moodCounts, first)
     IN  /\ moodLocals.moodCounts[second] = moodLocals.moodCounts[first]
         /\ \E e \in second + 1..Len(genreCheckList) :
               moodLocals.moodCounts[e] = moodLocals.moodCounts[first]
         /\ returnedMoods(genreCheckList[first].mood, genreCheckList[second].mood)

\* C22: when the highest final count is 0 the moods are Energetic and Happy
\* for averagePopularity > 70, Nostalgic and Adventurous for 50 <
\* averagePopularity <= 70, Thoughtful and Melancholic otherwise; when it is
\* above 0 the moods are those of the selection.
C22_ZeroOverride ==
  localsSet =>
     IF highestOf(moodLocals.moodCounts, 0) = 0
       THEN IF averageAbove(70) THEN returnedMoods(energetic, happy)
            ELSE IF averageAbove(50) THEN returnedMoods(nostalgic, adventurous)
            ELSE returnedMoods(thoughtful, melancholic)
       ELSE LET first == firstHighest(moodLocals.moodCounts, 0)
            IN  moodResult.value.primary = Capitalize(genreCheckList[first].mood)

C22_Witness ==
  /\ localsSet /\ highestOf(moodLocals.moodCounts, 0) = 0
  /\ moodLocals.popularitySum = 70 * moodLocals.length
  /\ Len(genres) = 1
  /\ returnedMoods(nostalgic, adventurous)

\* C23: for a non-empty track list primary and secondary are capitalised
\* names of moods of the table, description and recommendation are the
\* texts of the primary mood, and neither the default description nor the
\* generic recommendation is returned in their place.
C23_TableTexts ==
  (moodReturned /\ someTracks) =>
     /\ \E m \in Moods :
           /\ moodResult.value.primary = Capitalize(m)
           /\ moodResult.value.description = moodDescriptions[m].description
           /\ moodResult.value.recommendation = moodDescriptions[m].recommendation
     /\ \E m \in Moods : moodResult.value.secondary = Capitalize(m)
     /\ moodResult.value.description # defaultMood.description
     /\ moodResult.value.recommendation # genericRecommendation

C23_Witness ==
  /\ moodReturned /\ someTracks
  /\ returnedMoods(relaxed, thoughtful)
  /\ moodResult.value.description = moodDescriptions[relaxed].description
  /\ moodResult.value.recommendation = moodDescriptions[relaxed].recommendation

\* C26: in every result, of an empty or a non-empty track list, primary and
\* secondary differ.
C26_PrimaryNotSecondary ==
  moodReturned => moodResult.value.primary # moodResult.value.secondary

C26_Witness ==
  /\ moodReturned /\ someTracks /\ Len(genres) = 2
  /\ moodLocals.moodCounts[entryOf[thoughtful]] = 2
  /\ moodLocals.moodCounts[entryOf[melancholic]] = 1
  /\ returnedMoods(thoughtful, intense)

\* C27: with no genre that contains a keyword, the highest final count is 0
\* exactly when 50 <= averagePopularity <= 75; then Thoughtful and
\* Melancholic come from the override only at averagePopularity = 50, and
\* below 50 the result is Melancholic and Thoughtful, in this order.
C27_NoSignal ==
  (localsSet /\ \A e \in 1..Len(genreCheckList) : moodLocals.genreCounts[e] = 0) =>
     /\ (highestOf(moodLocals.moodCounts, 0) = 0)
           <=> (~averageBelow(50) /\ ~averageAbove(75))
     /\ (highestOf(moodLocals.moodCounts, 0) = 0 /\ ~averageAbove(50)) =>
           /\ moodLocals.popularitySum = 50 * moodLocals.length
           /\ returnedMoods(thoughtful, melancholic)
     /\ averageBelow(50) => returnedMoods(melancholic, thoughtful)

C27_Witness ==
  /\ localsSet /\ Len(genres) = 1 /\ moodLocals.length = 2
  /\ \A e \in 1..Len(genreCheckList) : moodLocals.genreCounts[e] = 0
  /\ averageBelow(50)
  /\ returnedMoods(melancholic, thoughtful)

---------------------------------------------------------------------------
(* Properties of the prompt that generateBiography sends.                  *)

sentPrompts == {providerCalls[i].prompt : i \in 1..Len(providerCalls)}
linesOf(p, label) ==
  {i \in 1..Len(p.userContextText) : p.userContextText[i].label = label}
hasLine(p, label, value) ==
  /\ Cardinality(linesOf(p, label)) = 1
  /\ \A i \in linesOf(p, label) : p.userContextText[i].value = value
noContext ==
  /\ Len(options.artistGenres) = 0 /\ Len(options.topArtists) = 0
  /\ options.mostPlayedSong = "" /\ Len(options.playlists) = 0

\* C24: every prompt sent to a provider lists the tracks, numbered from 1,
\* with name and artist; it has the genres line, the top-artists line, the
\* most-played-song line and the playlist-themes line each exactly when
\* that input is non-empty, and has the 'Additional context' header exactly
\* when at least one of the four is.
C24_PromptContext ==
  \A p \in sentPrompts :
     /\ Len(p.tracksText) = Len(options.tracks)
     /\ \A i \in 1..Len(options.tracks) :
           p.tracksText[i] = [number |-> i, name |-> options.tracks[i].name,
                              artist |-> options.tracks[i].artist]
     /\ IF Len(options.artistGenres) > 0
          THEN hasLine(p, "Favorite music genres", options.artistGenres)
          ELSE linesOf(p, "Favorite music genres") = {}
     /\ IF Len(options.topArtists) > 0
          THEN hasLine(p, "Top artists", options.topArtists)
          ELSE linesOf(p, "Top artists") = {}
     /\ IF options.mostPlayedSong # ""
          THEN hasLine(p, "Most played song", <<options.mostPlayedSong>>)
          ELSE linesOf(p, "Most played song") = {}
     /\ IF Len(options.playlists) > 0
          THEN hasLine(p, "Playlist themes", options.playlists)
          ELSE linesOf(p, "Playlist themes") = {}
     /\ IF noContext
          THEN p.userContextText = <<>>
          ELSE linesOf(p, "Additional context about the listener") = {1}

C24_Witness ==
  /\ bpc = "awaitDeepSeek" /\ Len(providerCalls) = 2
  /\ Len(options.tracks) = 2 /\ Len(options.artistGenres) = 1
  /\ Len(options.topArtists) = 0 /\ options.mostPlayedSong # ""
  /\ Len(options.playlists) = 0
  /\ Len(lastCall.prompt.userContextText) = 3

\* C29: the prompts sent are those of the same options under any other
\* display name, and the result is decided by the providers' answers and
\* the language alone.
C29_NameNotSent ==
  /\ \A p \in sentPrompts :
        \A o \in BiographyOptions :
           [o EXCEPT !.userDisplayName = options.userDisplayName] = options
             => p = buildPrompt(o)
  /\ (bioDone /\ Len(providerCalls) > 0) =>
        bioResult = IF lastCall.outcome = "ok"
                      THEN Return(truncate(lastCall.text))
                      ELSE Return(fallbackText(options.language))

C29_Witness ==
  /\ bioDone /\ options.userDisplayName = "Ada" /\ Len(options.tracks) = 1
  /\ Len(providerCalls) = 2 /\ lastCall.outcome = "ok"
  /\ providerCalls[1].prompt = providerCalls[2].prompt
  /\ bioResult = Return(lastCall.text)

---------------------------------------------------------------------------
(* Properties of a whole generateAllBiographies run.                       *)

\* C28: with a provider configured a run makes exactly three
\* generateBiography calls and waits exactly two delays, no call throws and
\* the three texts received are the result; with none configured the run is
\* one call, for en, that throws, no delay and no provider call, and the
\* result is the static set.
C28_CallCounts ==
  /\ (genAI \/ openai) =>
        /\ eventsAt("throw") = {}
        /\ allDone =>
              /\ [k \in 1..Len(timeline) |-> timeline[k].event] =
                    <<"call", "return", "delay", "call", "return", "delay",
                      "call", "return">>
              /\ allResult = Return([en |-> bios[1], tr |-> bios[2], ku |-> bios[3]])
  /\ (~genAI /\ ~openai) =>
        /\ providerCalls = <<>>
        /\ eventsAt("delay") = {}
        /\ Cardinality(eventsAt("call")) <= 1
        /\ allDone =>
              /\ timeline = <<called("en"), threw("en")>>
              /\ allResult = Return(fallbackSet)

C28_Witness ==
  /\ allDone /\ genAI /\ ~openai
  /\ Cardinality(eventsAt("call")) = 3 /\ Cardinality(eventsAt("delay")) = 2
  /\ allResult.value.en # fallbackEn
  /\ allResult.value.tr = fallbackTr
  /\ allResult.value.ku # fallbackKu

---------------------------------------------------------------------------
(* Properties of the store under the two routes.                           *)

usersOf(spotifyId) == {k \in DOMAIN users : users[k].spotifyId = spotifyId}
biographiesOf(uid) == {k \in DOMAIN biographies : biographies[k].userId = uid}

\* Every record is stored under its own id, below the next id of its map.
idsInOrder ==
  /\ \A k \in DOMAIN users : users[k].id = k /\ k < userId
  /\ \A k \in DOMAIN biographies : biographies[k].id = k /\ k < biographyId
  /\ \A k \in DOMAIN topTracks : topTracks[k].id = k /\ k < trackId

\* A step keeps every user and biography under its id and with its key, and
\* hands out only ids from the next id of the map upwards.
idsKept ==
  /\ \A k \in DOMAIN users :
        /\ k \in DOMAIN users'
        /\ users'[k].spotifyId = users[k].spotifyId
  /\ \A k \in DOMAIN biographies :
        /\ k \in DOMAIN biographies'
        /\ biographies'[k].userId = biographies[k].userId
  /\ \A k \in DOMAIN users' \ DOMAIN users : userId <= k /\ k < userId'
  /\ \A k \in DOMAIN biographies' \ DOMAIN biographies :
        biographyId <= k /\ k < biographyId'
  /\ \A k \in DOMAIN topTracks' \ DOMAIN topTracks : trackId <= k /\ k < trackId'
  /\ userId <= userId' /\ biographyId <= biographyId' /\ trackId <= trackId'

\* C30: after any sequence of requests to the two routes the store has at
\* most one user per spotifyId and at most one biography per userId, every
\* record is stored under its own id, an update keeps the id and the key of
\* the record, and an id is handed out once: each new id is at least the
\* counter, which is above every id handed out before.
C30_StoreKeys ==
  /\ [](/\ \A s \in SpotifyIds : Cardinality(usersOf(s)) <= 1
        /\ \A u \in DOMAIN users : Cardinality(biographiesOf(u)) <= 1
        /\ idsInOrder)
  /\ [][idsKept]_vars

C30_Witness ==
  /\ Cardinality(DOMAIN users) = 2 /\ Cardinality(DOMAIN biographies) = 2
  /\ users[1].spotifyId = "s2" /\ users[1].accessToken = "t2"
  /\ biographies[1].userId = 2 /\ biographies[1].biographyEn # fallbackEn
  /\ DOMAIN topTracks = {2}
  /\ response = status(200)

---------------------------------------------------------------------------
(* What the components leave alone.                                        *)

\* C25: no step of the classifier, of generateBiography or of
\* generateAllBiographies assigns the provider handles or writes to the
\* store, and while a call runs its arguments stay as they were passed.
C25_NoSharedState ==
  [][/\ genAI' = genAI /\ openai' = openai
     /\ UNCHANGED storeVars
     /\ mpc = "called" => (tracks' = tracks /\ genres' = genres)
     /\ bpc \in {"awaitGemini", "awaitDeepSeek"} => options' = options
     /\ apc \in {"awaitBiography", "awaitDelay"} => allArgs' = allArgs]_vars

C25_Witness ==
  /\ apc = "awaitBiography" /\ bpc = "awaitDeepSeek" /\ genAI /\ openai
  /\ Len(bios) = 2 /\ Len(providerCalls) = 2
  /\ "artistGenres" \in DOMAIN allArgs.extraData
  /\ options = optionsFor(allArgs, "ku")
  /\ users = EmptyMap /\ userId = 1

====
